---------------------------- MODULE Spec2Model ----------------------------
(***************************************************************************)
(* Instance batching and indirect-draw compaction of bevy-instancing.      *)
(*                                                                         *)
(* The module models the render-world systems of                           *)
(* src/instancing/material/systems: the mesh batcher, the instance         *)
(* collector and sorter, the instance packer, the indirect draw builder    *)
(* with its uniform-buffer capacity split, and the queue stage; and the    *)
(* instance compute queue and node of src/instancing/instance_compute.rs.  *)
(*                                                                         *)
(* Handles and entities are integers; Handle and Entity order is integer   *)
(* order.  A BTreeMap is a function whose domain holds one tuple per class *)
(* of keys that the key type's Ord implementation calls Equal.             *)
(***************************************************************************)
EXTENDS Integers, Sequences, FiniteSets, TLC

\* ------------------------------------------------------------------ bounds
MaxMeshes == 3

MaxCount == 3

MaxCapacity == 2

\* instances of the sorted batches
NumInstances == 3

\* frames of a run
MaxFrames == 3

\* mesh asset events of one frame
MaxEvents == 2

\* ------------------------------------------------------- machine integers
\* A u32 is held as its representative in -2^31 .. 2^31-1: a negative
\* representative r stands for the u32 value 2^32 + r, which is what a
\* wrapping subtraction below zero leaves in the register.
U16 == 65536

\* u32 subtraction as the release profile computes it (wrapping)
SubU32(a, b) == a - b

\* u32 addition as the release profile computes it (wrapping)
AddU32(a, b) == a + b

\* the u32 held by r is at most the small natural c
LeU32(r, c) == r >= 0 /\ r <= c

\* ---------------------------------------------------------------- helpers
RECURSIVE SumSeq(_)
SumSeq(s) == IF s = <<>> THEN 0 ELSE Head(s) + SumSeq(Tail(s))

RECURSIVE SumPrefix(_, _)
SumPrefix(s, n) == IF n = 0 THEN 0 ELSE s[n] + SumPrefix(s, n - 1)

RECURSIVE Flatten(_)
Flatten(ss) == IF ss = <<>> THEN <<>> ELSE Head(ss) \o Flatten(Tail(ss))

RECURSIVE SelectSeqRec(_, _)
SelectSeqRec(s, keep) ==
    IF s = <<>> THEN <<>>
    ELSE IF keep[1] THEN <<Head(s)>> \o SelectSeqRec(Tail(s), Tail(keep))
         ELSE SelectSeqRec(Tail(s), Tail(keep))

Min(a, b) == IF a <= b THEN a ELSE b


\* ------------------------------------------------- instance buffer backing
\* GpuInstances::set for uniform backing: the packed instances are cut into
\* buffers of at most `total` instances each; the model keeps the lengths.
RECURSIVE UniformBuffers(_, _)
UniformBuffers(len, total) ==
    IF len = 0 THEN <<>>
    ELSE <<Min(len, total)>> \o UniformBuffers(len - Min(len, total), total)

\* GpuInstances::set: one storage buffer or a list of uniform buffers
GpuInstancesSet(kind, len, total) ==
    IF kind = "Uniform"
    THEN [kind |-> "Uniform", buffers |-> UniformBuffers(len, total)]
    ELSE [kind |-> "Storage", buffers |-> <<len>>]

\* ------------------------------------------------- indirect draw building
\* a fold that adds the count before it stores the offset
MeshInstanceOffsetsInclusive(counts) == [i \in 1..Len(counts) |-> SumPrefix(counts, i)]

\* exclusive prefix sums of the per-mesh instance counts, in mesh order
MeshInstanceOffsets(counts) == [i \in 1..Len(counts) |-> SumPrefix(counts, i - 1)]

\* exclusive prefix sums of the per-mesh element counts, in mesh order
MeshVertexOffsets(elems) == [i \in 1..Len(elems) |-> SumPrefix(elems, i - 1)]

\* one finalized record: the template of mesh i with counts and offsets
IndirectRecord(buffer, counts, elems, i) ==
    [mesh |-> buffer[i].mesh,
     vertex_count |-> buffer[i].vertex_count,
     instance_count |-> counts[i],
     base |-> MeshVertexOffsets(elems)[i],
     base_instance |-> MeshInstanceOffsets(counts)[i]]

\* GpuIndirectData::Indexed: flat_map keeps the entries with instances
IndirectDataIndexed(buffer, counts, elems) ==
    LET n == Min(Len(buffer), Len(counts))
        all == [i \in 1..n |-> IndirectRecord(buffer, counts, elems, i)]
    IN SelectSeqRec(all, [i \in 1..n |-> counts[i] > 0])

\* GpuIndirectData::NonIndexed: map keeps every entry
IndirectDataNonIndexed(buffer, counts, elems) ==
    LET n == Min(Len(buffer), Len(counts))
    IN [i \in 1..n |-> IndirectRecord(buffer, counts, elems, i)]

PushLast(split_data, r) ==
    [split_data EXCEPT ![Len(split_data)] = Append(@, r)]

\* one iteration of the indexed split loop
SplitIndexedStep(st, indirect, total) ==
    LET count == st.count + indirect.instance_count
        delta == count - total
    IN IF delta > 0
       THEN LET lhs_count == SubU32(indirect.instance_count, delta)
                lhs_base == SubU32(indirect.base_instance, st.offset)
                lhs == [indirect EXCEPT !.instance_count = lhs_count,
                                        !.base_instance = lhs_base]
                rhs == [lhs EXCEPT !.instance_count = delta,
                                   !.base_instance = 0]
            IN [split_data |-> Append(PushLast(st.split_data, lhs), <<rhs>>),
                count |-> delta,
                offset |-> AddU32(st.offset, AddU32(lhs_base, lhs_count)),
                overflow |-> \/ st.overflow
                             \/ indirect.instance_count < delta
                             \/ indirect.base_instance < st.offset]
       ELSE [split_data |-> PushLast(st.split_data,
                               [indirect EXCEPT !.base_instance =
                                   SubU32(indirect.base_instance, st.offset)]),
             count |-> count,
             offset |-> st.offset,
             overflow |-> st.overflow \/ indirect.base_instance < st.offset]

RECURSIVE SplitIndexedLoop(_, _, _, _)
SplitIndexedLoop(st, indirect_data, i, total) ==
    IF i > Len(indirect_data) THEN st
    ELSE SplitIndexedLoop(SplitIndexedStep(st, indirect_data[i], total),
                          indirect_data, i + 1, total)

\* a split that cuts at the capacity whatever the backing is
SplitIndexedAlways(indirect_data, kind, total) ==
    SplitIndexedLoop([split_data |-> <<<<>>>>, count |-> 0, offset |-> 0,
                      overflow |-> FALSE], indirect_data, 1, total)

\* the split of the indexed records of a batch
SplitIndexed(indirect_data, kind, total) ==
    IF kind = "Uniform"
    THEN SplitIndexedLoop([split_data |-> <<<<>>>>, count |-> 0, offset |-> 0,
                           overflow |-> FALSE], indirect_data, 1, total)
    ELSE [split_data |-> <<indirect_data>>, count |-> 0, offset |-> 0,
          overflow |-> FALSE]

\* one iteration of the non-indexed split loop
SplitNonIndexedStep(st, indirect, total) ==
    LET count == st.count + indirect.instance_count
        delta == count - total
    IN IF delta > 0
       THEN LET lhs_count == SubU32(indirect.instance_count, delta)
                lhs == [indirect EXCEPT !.instance_count = lhs_count]
                rhs == [lhs EXCEPT !.instance_count = delta,
                                   !.base_instance =
                                       AddU32(indirect.base_instance, lhs_count)]
            IN [split_data |-> Append(PushLast(st.split_data, lhs), <<rhs>>),
                count |-> 0,
                offset |-> 0,
                overflow |-> \/ st.overflow
                             \/ indirect.instance_count < delta]
       ELSE [split_data |-> PushLast(st.split_data, indirect),
             count |-> count,
             offset |-> 0,
             overflow |-> st.overflow]

RECURSIVE SplitNonIndexedLoop(_, _, _, _)
SplitNonIndexedLoop(st, indirect_data, i, total) ==
    IF i > Len(indirect_data) THEN st
    ELSE SplitNonIndexedLoop(SplitNonIndexedStep(st, indirect_data[i], total),
                             indirect_data, i + 1, total)

\* the split of the non-indexed records of a batch
SplitNonIndexed(indirect_data, kind, total) ==
    IF kind = "Uniform"
    THEN SplitNonIndexedLoop([split_data |-> <<<<>>>>, count |-> 0, offset |-> 0,
                              overflow |-> FALSE], indirect_data, 1, total)
    ELSE [split_data |-> <<indirect_data>>, count |-> 0, offset |-> 0,
          overflow |-> FALSE]

\* the indirect buffers of a batch: records, then split groups
CreateIndirectBuffer(is_indexed, buffer, counts, elems, kind, total) ==
    IF is_indexed
    THEN SplitIndexed(IndirectDataIndexed(buffer, counts, elems), kind, total)
    ELSE SplitNonIndexed(IndirectDataNonIndexed(buffer, counts, elems), kind, total)

\* the drawable batches: uniform buffers zipped with the split groups, or the
\* storage buffer with the first group
PairBatches(gpu_instances, split_data) ==
    IF gpu_instances.kind = "Uniform"
    THEN [i \in 1..Min(Len(gpu_instances.buffers), Len(split_data)) |->
             [buffer |-> i, buffer_len |-> gpu_instances.buffers[i],
              indirect_buffer |-> split_data[i]]]
    ELSE <<[buffer |-> 1, buffer_len |-> gpu_instances.buffers[1],
            indirect_buffer |-> split_data[1]]>>


\* ------------------------------------------------------------ collections
MinOf(S) == CHOOSE x \in S : \A y \in S : x <= y

\* the elements of a set of numbers in ascending order
SortedSeqOfSet(S) ==
    [k \in 1..Cardinality(S) |->
        CHOOSE x \in S : Cardinality({y \in S : y < x}) = k - 1]

RangeOf(s) == {s[i] : i \in 1..Len(s)}

\* the elements of s that are in S, in the order of s
FilterSeq(s, S) == SelectSeq(s, LAMBDA x : x \in S)

\* position of x in s (1-based), 0 when absent
PositionOf(s, x) ==
    IF \E i \in 1..Len(s) : s[i] = x
    THEN CHOOSE i \in 1..Len(s) : s[i] = x /\ \A j \in 1..(i - 1) : s[j] # x
    ELSE 0

\* ------------------------------------------------------------- mesh keys
\* Option<IndexFormat> compared as the Ord implementation compares it
IndexFormatRank(index_format) ==
    CASE index_format = "None" -> 0
      [] index_format = "Uint16" -> 1
      [] index_format = "Uint32" -> 2

\* a comparison of mesh keys that stops after the primitive topology
MeshKeyOrdTopologyOnly(key) == <<key.primitive_topology, 0>>

\* the class of an InstancedMeshKey under its Ord implementation: the
\* primitive topology, then the index format; the layout is not compared
MeshKeyOrd(key) == <<key.primitive_topology, IndexFormatRank(key.index_format)>>

\* the render-world record of a mesh asset
GpuInstancedMesh(mesh) ==
    [key |-> [primitive_topology |-> mesh.primitive_topology,
              layout |-> mesh.layout,
              index_format |-> mesh.index_format],
     vertex_count |-> mesh.vertex_count,
     index_buffer_data |->
        IF mesh.index_format = "None"
        THEN [tag |-> "NonIndexed", indices |-> <<>>, index_count |-> 0,
              index_format |-> "None", vertex_count |-> mesh.vertex_count]
        ELSE [tag |-> "Indexed", indices |-> mesh.indices,
              index_count |-> Len(mesh.indices),
              index_format |-> mesh.index_format, vertex_count |-> 0]]

\* ----------------------------------------------------------- mesh batcher
NoIndexData ==
    [tag |-> "None", indices |-> <<>>, index_count |-> 0, index_format |-> "None",
     vertex_count |-> 0, panic |-> "", overflow |-> FALSE]

\* `base_index as u16 + *idx` resp. `base_index as u32 + *idx`
RebaseIndex(base_index, idx, index_format) ==
    IF index_format = "Uint16" THEN ((base_index % U16) + idx) % U16
    ELSE base_index + idx

RebaseOverflows(base_index, idx, index_format) ==
    index_format = "Uint16" /\ (base_index % U16) + idx >= U16

\* one step of the index fold: the accumulator joined with one mesh
IndexFoldStep(acc, gpu_mesh, base_index) ==
    LET ibd == gpu_mesh.index_buffer_data
    IN IF acc.panic # "" THEN acc
       ELSE IF ibd.tag = "Indexed"
       THEN CASE acc.tag = "None" ->
                   [acc EXCEPT !.tag = "Indexed", !.indices = ibd.indices,
                               !.index_count = ibd.index_count,
                               !.index_format = ibd.index_format]
              [] acc.tag = "Indexed" ->
                   IF acc.index_format = ibd.index_format
                   THEN [acc EXCEPT
                           !.indices = @ \o
                               [i \in 1..Len(ibd.indices) |->
                                   RebaseIndex(base_index, ibd.indices[i],
                                               ibd.index_format)],
                           !.index_count = ibd.index_count + @,
                           !.overflow = @ \/ \E i \in 1..Len(ibd.indices) :
                               RebaseOverflows(base_index, ibd.indices[i],
                                               ibd.index_format)]
                   ELSE [acc EXCEPT !.panic = "Mismatched index format"]
              [] OTHER -> [acc EXCEPT !.panic = "Mismatched GpuIndexBufferData"]
       ELSE CASE acc.tag = "None" ->
                   [acc EXCEPT !.tag = "NonIndexed",
                               !.vertex_count = ibd.vertex_count]
              [] acc.tag = "NonIndexed" ->
                   [acc EXCEPT !.vertex_count = ibd.vertex_count + @]
              [] OTHER -> [acc EXCEPT !.panic = "Mismatched GpuIndexBufferData"]

RECURSIVE IndexFold(_, _, _, _, _)
IndexFold(acc, meshes, i, base_index, registry) ==
    IF i > Len(meshes) THEN acc
    ELSE IndexFold(IndexFoldStep(acc, registry[meshes[i]], base_index),
                   meshes, i + 1,
                   base_index + registry[meshes[i]].vertex_count, registry)

\* the concatenated index data of the meshes of one key, in mesh order
IndexData(meshes, registry) == IndexFold(NoIndexData, meshes, 1, 0, registry)

\* the concatenated vertex data: one blob per mesh, in mesh order
VertexData(meshes, registry) ==
    [i \in 1..Len(meshes) |->
        [mesh |-> meshes[i], vertex_count |-> registry[meshes[i]].vertex_count]]

\* the draw templates of the meshes of one key, in mesh order
IndirectTemplates(key, meshes, registry) ==
    [i \in 1..Len(meshes) |->
        LET ibd == registry[meshes[i]].index_buffer_data
        IN [mesh |-> meshes[i],
            vertex_count |-> IF key.index_format # "None"
                             THEN ibd.index_count ELSE ibd.vertex_count,
            panic |-> IF (key.index_format # "None") = (ibd.tag = "Indexed")
                      THEN "" ELSE "Mismatched GpuIndexBufferData"]]

\* the mesh batches of a list of mesh handles given in iteration order: the
\* BTreeMap entry of a key class keeps the key that created the entry
MeshBatchesOf(handles, registry) ==
    LET classes == {MeshKeyOrd(registry[handles[i]].key) : i \in 1..Len(handles)}
        first(c) == CHOOSE i \in 1..Len(handles) :
                       /\ MeshKeyOrd(registry[handles[i]].key) = c
                       /\ \A j \in 1..(i - 1) :
                             MeshKeyOrd(registry[handles[j]].key) # c
        members(c) == SortedSeqOfSet({handles[i] : i \in
                         {j \in 1..Len(handles) :
                             MeshKeyOrd(registry[handles[j]].key) = c}})
    IN [c \in classes |->
           LET key == registry[handles[first(c)]].key
           IN [key |-> key,
               meshes |-> members(c),
               vertex_data |-> VertexData(members(c), registry),
               index_data |-> IndexData(members(c), registry),
               indirect_data |-> IndirectTemplates(key, members(c), registry)]]

\* the first panic message among the mesh batches, "" when there is none
MeshBatchesPanic(mesh_batches) ==
    IF \E c \in DOMAIN mesh_batches : mesh_batches[c].index_data.panic # ""
    THEN (mesh_batches[CHOOSE c \in DOMAIN mesh_batches :
                          mesh_batches[c].index_data.panic # ""]).index_data.panic
    ELSE IF \E c \in DOMAIN mesh_batches :
              \E i \in 1..Len(mesh_batches[c].indirect_data) :
                  mesh_batches[c].indirect_data[i].panic # ""
    THEN "Mismatched GpuIndexBufferData"
    ELSE ""


\* ---------------------------------------------------------- material keys
\* GpuAlphaMode::from(AlphaMode): the cutoff of Mask is dropped
GpuAlphaModeFrom(alpha_mode) == alpha_mode.mode

\* GpuAlphaMode in the order of its derived Ord
AlphaRank(gpu_alpha_mode) ==
    CASE gpu_alpha_mode = "Opaque" -> 0
      [] gpu_alpha_mode = "Mask" -> 1
      [] gpu_alpha_mode = "Blend" -> 2

\* the class of an InstancedMaterialBatchKey: alpha mode, then batch key
MaterialKeyOrd(material) ==
    <<AlphaRank(GpuAlphaModeFrom(material.alpha_mode)), material.batch_key>>

\* the class of an InstanceBatchKey: mesh key, then material key
BatchKeyOrd(gpu_mesh, material) == MeshKeyOrd(gpu_mesh.key) \o MaterialKeyOrd(material)

MeshPart(c) == <<c[1], c[2]>>

MaterialPart(c) == <<c[3], c[4]>>

\* --------------------------------------------- instance collector / sorter
\* ViewRangefinder3d::distance of an instance transform; every view of the
\* model looks along the axis on which the transforms are placed
RangefinderDistance(view, transform) == transform

\* the sort distance with the two factors exchanged
SortDistExchanged(view, transform, material) ==
    LET mesh_z == RangefinderDistance(view, transform) + material.depth_bias
    IN mesh_z * (IF GpuAlphaModeFrom(material.alpha_mode) = "Blend" THEN -1 ELSE 1)

\* the sort distance of an instance under a prepared material
SortDist(view, transform, material) ==
    LET mesh_z == RangefinderDistance(view, transform) + material.depth_bias
    IN mesh_z * (IF GpuAlphaModeFrom(material.alpha_mode) = "Blend" THEN 1 ELSE -1)

\* the (key, entry) pairs of the plain instances of a view, in the order of
\* the view's instance list; instances without mesh or material are skipped
CollectInstances(view, list, table, registry, materials) ==
    LET kept == SelectSeq(list, LAMBDA e :
                    /\ e \in DOMAIN table
                    /\ table[e].mesh \in DOMAIN registry
                    /\ table[e].material \in DOMAIN materials)
    IN [k \in 1..Len(kept) |->
           [class |-> BatchKeyOrd(registry[table[kept[k]].mesh],
                                  materials[table[kept[k]].material]),
            mesh |-> table[kept[k]].mesh,
            dist |-> SortDist(view, table[kept[k]].transform,
                              materials[table[kept[k]].material]),
            entity |-> kept[k],
            material |-> table[kept[k]].material]]

\* the (key, entry) pairs of the instance slices of a view
CollectSlices(list, table, registry, materials) ==
    LET kept == SelectSeq(list, LAMBDA e :
                    /\ e \in DOMAIN table
                    /\ table[e].mesh \in DOMAIN registry
                    /\ table[e].material \in DOMAIN materials)
    IN [k \in 1..Len(kept) |->
           [class |-> BatchKeyOrd(registry[table[kept[k]].mesh],
                                  materials[table[kept[k]].material]),
            entity |-> kept[k],
            instance_count |-> table[kept[k]].instance_count]]

SelectClass(entries, c) == SelectSeq(entries, LAMBDA x : x.class = c)

\* BTreeMap<InstanceBatchKey, Vec<..>> built by entry(key).or_default().push
KeyedBy(entries) ==
    [c \in {entries[i].class : i \in 1..Len(entries)} |-> SelectClass(entries, c)]

\* a comparison that takes the distance before the mesh
SortKeyLessDistFirst(a, b) == a.dist < b.dist \/ (a.dist = b.dist /\ a.mesh < b.mesh)

\* the sort key (&Handle<Mesh>, FloatOrd) compared lexicographically
SortKeyLess(a, b) == a.mesh < b.mesh \/ (a.mesh = b.mesh /\ a.dist < b.dist)

SortKeyEq(a, b) == a.mesh = b.mesh /\ a.dist = b.dist

RECURSIVE PermSeqs(_)
PermSeqs(S) ==
    IF S = {} THEN {<<>>}
    ELSE UNION {{<<x>> \o p : p \in PermSeqs(S \ {x})} : x \in S}

\* the number of entries of vec whose sort key is below that of entry i
SortRank(vec, i) == Cardinality({j \in 1..Len(vec) : SortKeyLess(vec[j], vec[i])})

\* one sorted arrangement of vec: entries with equal keys in their old order
SortStable(vec) ==
    LET place == [i \in 1..Len(vec) |->
                     SortRank(vec, i)
                     + Cardinality({j \in 1..i : SortKeyEq(vec[j], vec[i])})]
    IN [k \in 1..Len(vec) |-> vec[CHOOSE i \in 1..Len(vec) : place[i] = k]]

\* the places of vec (sorted) that hold a run of two or more equal keys,
\* one set of places per run
TiedRuns(vec) ==
    {run \in {{j \in 1..Len(vec) : SortKeyEq(vec[j], vec[i])} : i \in 1..Len(vec)} :
        Cardinality(run) > 1}

\* every result sort_unstable_by may leave: the entries of a run of equal
\* sort keys come out in any order
RECURSIVE SortUnstable(_, _)
SortUnstable(vec, runs) ==
    IF runs = {} THEN {vec}
    ELSE LET run == CHOOSE r \in runs : TRUE
             first == MinOf(run)
         IN UNION {SortUnstable([k \in 1..Len(vec) |->
                                    IF k \in run THEN vec[p[k - first + 1]] ELSE vec[k]],
                                runs \ {run}) : p \in PermSeqs(run)}

\* a collector that keeps one entry per sort key, the last one pushed
SortedInstancesByKey(vec) ==
    LET last == SelectSeq([i \in 1..Len(vec) |-> i],
                          LAMBDA i : \A j \in (i + 1)..Len(vec) :
                                        ~SortKeyEq(vec[i], vec[j]))
    IN {SortStable([k \in 1..Len(last) |-> vec[last[k]]])}

\* every result of sorting the entries of one key
SortedInstances(vec) == SortUnstable(SortStable(vec), TiedRuns(SortStable(vec)))

\* every function on D that maps d to an element of F[d]
RECURSIVE DepFuns(_, _)
DepFuns(D, F) ==
    IF D = {} THEN {<<>>}
    ELSE LET d == CHOOSE x \in D : TRUE
         IN {(d :> x) @@ g : x \in F[d], g \in DepFuns(D \ {d}, F)}

\* ---------------------------------------------------------- instance packer
DefaultPreparedInstance == [entity |-> 0, mesh |-> 0]

\* Instance::prepare_instance with the index of the mesh in its mesh batch
PrepareInstance(entry, meshes) ==
    [entity |-> entry.entity, mesh |-> PositionOf(meshes, entry.mesh) - 1]

\* the InstanceSliceRanges of the slices of one key, laid out after
\* `offset` packed instances
RECURSIVE SliceRanges(_, _)
SliceRanges(slices, offset) ==
    IF slices = <<>> THEN <<>>
    ELSE (Head(slices).entity :> [offset |-> offset,
                                   instance_count |-> Head(slices).instance_count])
         @@ SliceRanges(Tail(slices), offset + Head(slices).instance_count)

SliceTotal(slices) == SumSeq([i \in 1..Len(slices) |-> slices[i].instance_count])

\* the packed instance buffer of every key: sorted plain instances, then
\* default entries for the slices
InstanceBufferData(sorted, keyed_slices, mesh_batches) ==
    [c \in DOMAIN sorted \cup DOMAIN keyed_slices |->
        (IF c \in DOMAIN sorted
         THEN [i \in 1..Len(sorted[c]) |->
                  PrepareInstance(sorted[c][i], mesh_batches[MeshPart(c)].meshes)]
         ELSE <<>>)
        \o (IF c \in DOMAIN keyed_slices
            THEN [i \in 1..SliceTotal(keyed_slices[c]) |-> DefaultPreparedInstance]
            ELSE <<>>)]

\* slice ranges laid out from the start of the buffer
KeyedSliceRangesFromZero(sorted, keyed_slices) ==
    [c \in DOMAIN keyed_slices |-> SliceRanges(keyed_slices[c], 0)]

\* the slice ranges of every key that has slices
KeyedSliceRanges(sorted, keyed_slices) ==
    [c \in DOMAIN keyed_slices |->
        SliceRanges(keyed_slices[c],
                    IF c \in DOMAIN sorted THEN Len(sorted[c]) ELSE 0)]

\* GpuInstances of one view after the frame's buffers have been set: the
\* entries of earlier frames stay in the map
ViewInstanceDataSet(old, buffer_data, kind, total) ==
    [c \in DOMAIN old \cup DOMAIN buffer_data |->
        IF c \in DOMAIN buffer_data
        THEN [kind |-> kind, data |-> buffer_data[c],
              buffers |-> GpuInstancesSet(kind, Len(buffer_data[c]), total).buffers]
        ELSE old[c]]

\* the instance batches written to the view's meta: one per key of the
\* view's instance data
InstanceBatches(keys, sorted, slice_ranges) ==
    [c \in keys |->
        [instances |-> IF c \in DOMAIN sorted
                       THEN {sorted[c][i].entity : i \in 1..Len(sorted[c])}
                       ELSE {},
         instance_slice_ranges |-> IF c \in DOMAIN slice_ranges
                                   THEN slice_ranges[c] ELSE <<>>]]


\* ------------------------------------------------------------------ state
VARIABLES
    backing,               \* "Storage" or "Uniform": the device's binding type
    uniform_buffer_length, \* InstanceUniformLength::UNIFORM_BUFFER_LENGTH
    mesh_assets,           \* Assets<Mesh> of the main world: handle -> mesh
    mesh_events,           \* the AssetEvent<Mesh> events the frame's reader sees
    render_meshes,         \* RenderMeshes: handle -> GpuInstancedMesh
    material_assets,       \* extracted material assets: handle -> material
    gpu_images,            \* textures that are loaded
    render_materials,      \* RenderMaterials: prepared handle -> material
    instances,             \* instance entities: entity -> mesh, material, transform
    instance_slices,       \* slice entities: entity -> mesh, material, instance_count
    visible_entities,      \* per view, the VisibleEntities list
    instance_meta,         \* per view with an InstanceMeta component, the meta
    view_instance_data,    \* ViewInstanceData: view -> key -> GpuInstances
    material_batches,      \* MaterialBatches: key -> MaterialBatch
    render_phases,         \* per view, the items added to the three phases
    error_log,             \* the batches whose specialization error was logged
    instance_compute_queue, \* InstanceComputeQueue: the jobs of the frame
    dispatched,            \* the compute passes the node has dispatched
    stage,                 \* the system that runs next
    ran,                   \* the systems that have finished in this frame
    frame,                 \* number of the frame
    panicked               \* NoPanic or the system and message of a panic

vars == <<backing, uniform_buffer_length, mesh_assets, mesh_events, render_meshes,
          material_assets, gpu_images, render_materials, instances, instance_slices,
          visible_entities, instance_meta, view_instance_data, material_batches,
          render_phases, error_log, instance_compute_queue, dispatched, stage, ran,
          frame, panicked>>

world == <<backing, uniform_buffer_length, mesh_assets, mesh_events, material_assets,
           instances, instance_slices, visible_entities, instance_compute_queue,
           dispatched>>

Views == DOMAIN visible_entities

DefaultInstanceMeta ==
    [instances |-> <<>>, instance_slices |-> <<>>, mesh_batches |-> <<>>,
     instance_batches |-> <<>>, batched_instances |-> <<>>]

EmptyPhases == [opaque |-> <<>>, alpha_mask |-> <<>>, transparent |-> <<>>]

\* query iteration order: ascending entity
QueryInstance == SortedSeqOfSet(DOMAIN instances)

QueryInstanceSlice == SortedSeqOfSet(DOMAIN instance_slices)

NoPanic == <<"", "">>

\* a panic ends the frame; the system and the message are kept
Panic(msg) ==
    /\ panicked' = <<stage, msg>>
    /\ stage' = "Panicked"
    /\ UNCHANGED ran

\* ----------------------------------------------------------- the schedule
\* the systems of the Extract stage
ExtractStage == {"ExtractInstancedMeshes", "Extract"}

\* the systems of the Prepare stage
PrepareStage ==
    {"PrepareViewInstances", "PrepareAssets", "PrepareMeshBatches",
     "PrepareMaterialBatches", "PrepareInstanceBatches", "PrepareBatchedInstances"}

Systems == ExtractStage \cup PrepareStage \cup {"Queue"}

\* the schedule with prepare_instance_batches ordered after the mesh
\* batches only
AfterMeshBatchesOnly(sys) ==
    CASE sys \in ExtractStage -> {}
      [] sys = "PrepareViewInstances" -> ExtractStage
      [] sys = "PrepareAssets" -> ExtractStage \cup {"PrepareViewInstances"}
      [] sys = "PrepareMeshBatches" -> ExtractStage \cup {"PrepareAssets"}
      [] sys = "PrepareMaterialBatches" -> ExtractStage \cup {"PrepareAssets"}
      [] sys = "PrepareInstanceBatches" -> ExtractStage \cup {"PrepareMeshBatches"}
      [] sys = "PrepareBatchedInstances" ->
            ExtractStage \cup {"PrepareInstanceBatches"}
      [] sys = "Queue" -> ExtractStage \cup PrepareStage

\* the systems a system is scheduled after: the systems of the stages before
\* its stage and the systems its before/after constraints name
After(sys) ==
    CASE sys \in ExtractStage -> {}
      [] sys = "PrepareViewInstances" -> ExtractStage
      [] sys = "PrepareAssets" -> ExtractStage \cup {"PrepareViewInstances"}
      [] sys = "PrepareMeshBatches" -> ExtractStage \cup {"PrepareAssets"}
      [] sys = "PrepareMaterialBatches" -> ExtractStage \cup {"PrepareAssets"}
      [] sys = "PrepareInstanceBatches" ->
            ExtractStage \cup {"PrepareMeshBatches", "PrepareMaterialBatches"}
      [] sys = "PrepareBatchedInstances" ->
            ExtractStage \cup {"PrepareInstanceBatches"}
      [] sys = "Queue" -> ExtractStage \cup PrepareStage

\* the systems the executor may start once the systems in `done` have run
Runnable(done) == {sys \in Systems \ done : After(sys) \subseteq done}

\* what the executor starts next: a runnable system, or nothing more
Schedule(done) == IF Runnable(done) = {} THEN {"Done"} ELSE Runnable(done)

\* a system has run to its end
Finish(sys) ==
    /\ ran' = ran \cup {sys}
    /\ stage' \in Schedule(ran \cup {sys})

\* ------------------------------------------------------- the mesh registry
\* the handles of the Created and Modified events that no later Removed
\* event of the frame has taken out again
RECURSIVE ChangedAssets(_, _)
ChangedAssets(events, changed) ==
    IF events = <<>> THEN changed
    ELSE ChangedAssets(Tail(events),
                       IF Head(events).kind = "Removed"
                       THEN changed \ {Head(events).handle}
                       ELSE changed \cup {Head(events).handle})

\* the handles of the Removed events of the frame
RemovedAssets(events) ==
    {events[i].handle : i \in {j \in 1..Len(events) : events[j].kind = "Removed"}}

\* a registry update that inserts the extracted meshes before it removes
ExtractedMeshesInsertFirst(events, assets, registry) ==
    LET extracted == ChangedAssets(events, {}) \cap DOMAIN assets
    IN [h \in (DOMAIN registry \cup extracted) \ RemovedAssets(events) |->
           IF h \in extracted THEN GpuInstancedMesh(assets[h]) ELSE registry[h]]

\* the registry after the frame's events: removals first, then one record
\* per changed handle whose asset can be read
ExtractedMeshes(events, assets, registry) ==
    LET extracted == ChangedAssets(events, {}) \cap DOMAIN assets
    IN [h \in (DOMAIN registry \ RemovedAssets(events)) \cup extracted |->
           IF h \in extracted THEN GpuInstancedMesh(assets[h]) ELSE registry[h]]

\* ------------------------------------------------------------ the systems
\* extract_instanced_meshes
ExtractInstancedMeshes ==
    /\ stage = "ExtractInstancedMeshes"
    /\ render_meshes' = ExtractedMeshes(mesh_events, mesh_assets, render_meshes)
    /\ Finish("ExtractInstancedMeshes")
    /\ UNCHANGED <<world, gpu_images, render_materials, instance_meta,
                   view_instance_data, material_batches, render_phases, error_log,
                   frame, panicked>>

\* extract_instanced_view_meta: a fresh InstanceMeta for every view that
\* sees something; the render world of the last frame is gone
ExtractInstancedViewMeta ==
    /\ stage = "Extract"
    /\ instance_meta' = [v \in {w \in Views : visible_entities[w] # <<>>} |->
                            DefaultInstanceMeta]
    /\ render_phases' = [v \in Views |-> EmptyPhases]
    /\ Finish("Extract")
    /\ UNCHANGED <<world, render_meshes, gpu_images, render_materials,
                   view_instance_data, material_batches, error_log, frame, panicked>>

\* prepare_view_instances and prepare_view_instance_slices
PrepareViewInstances ==
    /\ stage = "PrepareViewInstances"
    /\ instance_meta' =
          [v \in DOMAIN instance_meta |->
              [instance_meta[v] EXCEPT
                  !.instances = FilterSeq(visible_entities[v], DOMAIN instances),
                  !.instance_slices =
                      FilterSeq(visible_entities[v], DOMAIN instance_slices)]]
    /\ Finish("PrepareViewInstances")
    /\ UNCHANGED <<world, render_meshes, gpu_images, render_materials,
                   view_instance_data, material_batches, render_phases, error_log,
                   frame, panicked>>

\* RenderAsset::prepare_asset of a texture material
PrepareAsset(material) ==
    IF material.texture \in gpu_images
    THEN [ok |-> TRUE,
          prepared |-> [alpha_mode |-> material.alpha_mode,
                        batch_key |-> material.batch_key,
                        depth_bias |-> material.depth_bias]]
    ELSE [ok |-> FALSE, prepared |-> material]

\* the asset-prepare step: assets whose preparation fails are retried in a
\* later frame and are not in the registry until then
PrepareAssets ==
    /\ stage = "PrepareAssets"
    /\ render_materials' =
          [m \in DOMAIN render_materials \cup
                 {h \in DOMAIN material_assets : PrepareAsset(material_assets[h]).ok} |->
              IF m \in DOMAIN render_materials THEN render_materials[m]
              ELSE PrepareAsset(material_assets[m]).prepared]
    /\ Finish("PrepareAssets")
    /\ UNCHANGED <<world, render_meshes, gpu_images, instance_meta, view_instance_data,
                   material_batches, render_phases, error_log, frame, panicked>>

\* the mesh handles prepare_mesh_batches walks for a view
ViewMeshHandles(meta) ==
    LET seen == FilterSeq(QueryInstance, RangeOf(meta.instances))
        seen_slices == FilterSeq(QueryInstanceSlice, RangeOf(meta.instance_slices))
    IN [i \in 1..Len(seen) |-> instances[seen[i]].mesh]
       \o [i \in 1..Len(seen_slices) |-> instance_slices[seen_slices[i]].mesh]

\* prepare_mesh_batches
PrepareMeshBatches ==
    /\ stage = "PrepareMeshBatches"
    /\ LET missing == \E v \in DOMAIN instance_meta :
                         \E h \in RangeOf(ViewMeshHandles(instance_meta[v])) :
                             h \notin DOMAIN render_meshes
           batches == [v \in DOMAIN instance_meta |->
                          MeshBatchesOf(ViewMeshHandles(instance_meta[v]),
                                        render_meshes)]
       IN IF missing
          THEN Panic("called Option::unwrap() on a None value") /\ UNCHANGED instance_meta
          ELSE IF \E v \in DOMAIN batches : MeshBatchesPanic(batches[v]) # ""
          THEN /\ Panic(MeshBatchesPanic(
                      batches[CHOOSE v \in DOMAIN batches :
                                 MeshBatchesPanic(batches[v]) # ""]))
               /\ UNCHANGED instance_meta
          ELSE \/ /\ \E v \in DOMAIN batches : \E c \in DOMAIN batches[v] :
                        batches[v][c].index_data.overflow
                  /\ Panic("attempt to add with overflow")
                  /\ UNCHANGED instance_meta
               \/ /\ instance_meta' = [v \in DOMAIN instance_meta |->
                        [instance_meta[v] EXCEPT !.mesh_batches = batches[v]]]
                  /\ Finish("PrepareMeshBatches")
                  /\ UNCHANGED panicked
    /\ UNCHANGED <<world, render_meshes, gpu_images, render_materials,
                   view_instance_data, material_batches, render_phases, error_log,
                   frame>>

\* a walk over the plain instances only
QueryMaterialsOfInstances ==
    [i \in 1..Len(QueryInstance) |-> instances[QueryInstance[i]].material]

\* the material handles prepare_material_batches walks
QueryMaterials ==
    [i \in 1..Len(QueryInstance) |-> instances[QueryInstance[i]].material]
    \o [i \in 1..Len(QueryInstanceSlice) |->
           instance_slices[QueryInstanceSlice[i]].material]

\* the collected BTreeMap: of the prepared materials of one key the last
\* one walked gives the MaterialBatch
MaterialBatchesOf(handles, materials) ==
    LET prepared == {i \in 1..Len(handles) : handles[i] \in DOMAIN materials}
    IN [c \in {MaterialKeyOrd(materials[handles[i]]) : i \in prepared} |->
           LET last == CHOOSE i \in prepared :
                          /\ MaterialKeyOrd(materials[handles[i]]) = c
                          /\ \A j \in prepared :
                                MaterialKeyOrd(materials[handles[j]]) = c => j <= i
           IN [material |-> handles[last]]]

\* prepare_material_batches
PrepareMaterialBatches ==
    /\ stage = "PrepareMaterialBatches"
    /\ material_batches' = MaterialBatchesOf(QueryMaterials, render_materials)
    /\ Finish("PrepareMaterialBatches")
    /\ UNCHANGED <<world, render_meshes, gpu_images, render_materials, instance_meta,
                   view_instance_data, render_phases, error_log, frame, panicked>>


\* the keyed plain instances of a view
KeyedInstances(v) ==
    KeyedBy(CollectInstances(v, instance_meta[v].instances, instances,
                             render_meshes, render_materials))

\* the keyed instance slices of a view
KeyedInstanceSlices(v) ==
    KeyedBy(CollectSlices(instance_meta[v].instance_slices, instance_slices,
                          render_meshes, render_materials))

\* the views prepare_instance_batches does not leave with `continue`
BatchedViews == {v \in DOMAIN instance_meta : DOMAIN KeyedInstances(v) # {}}

\* every outcome of sorting the keyed instances of a view
ViewSortedInstances(v) ==
    DepFuns(DOMAIN KeyedInstances(v),
            [c \in DOMAIN KeyedInstances(v) |-> SortedInstances(KeyedInstances(v)[c])])

\* the instance data of a view after the view's body has run
ViewInstanceDataOf(v, sorted) ==
    ViewInstanceDataSet(
        IF v \in DOMAIN view_instance_data THEN view_instance_data[v] ELSE <<>>,
        InstanceBufferData(sorted, KeyedInstanceSlices(v), instance_meta[v].mesh_batches),
        backing, uniform_buffer_length)

\* prepare_instance_batches
PrepareInstanceBatches ==
    /\ stage = "PrepareInstanceBatches"
    /\ \E sorted \in DepFuns(BatchedViews,
                             [v \in BatchedViews |-> ViewSortedInstances(v)]) :
          /\ view_instance_data' =
                [v \in DOMAIN view_instance_data \cup BatchedViews |->
                    IF v \in BatchedViews THEN ViewInstanceDataOf(v, sorted[v])
                    ELSE view_instance_data[v]]
          /\ instance_meta' =
                [v \in DOMAIN instance_meta |->
                    IF v \in BatchedViews
                    THEN [instance_meta[v] EXCEPT !.instance_batches =
                            InstanceBatches(
                                DOMAIN ViewInstanceDataOf(v, sorted[v]), sorted[v],
                                KeyedSliceRanges(sorted[v], KeyedInstanceSlices(v)))]
                    ELSE instance_meta[v]]
    /\ Finish("PrepareInstanceBatches")
    /\ UNCHANGED <<world, render_meshes, gpu_images, render_materials,
                   material_batches, render_phases, error_log, frame, panicked>>

\* prepare_instance_slice_targets: the InstanceSliceRange inserted on every
\* slice entity of the instance batches of the views that have instance data
InstanceSliceTargets ==
    UNION {UNION {{[view |-> v, entity |-> e,
                    range |-> instance_meta[v].instance_batches[c]
                                 .instance_slice_ranges[e]] :
                      e \in DOMAIN instance_meta[v].instance_batches[c]
                                      .instance_slice_ranges} :
                     c \in DOMAIN instance_meta[v].instance_batches} :
              v \in DOMAIN instance_meta \cap DOMAIN view_instance_data}

\* the per-mesh instance counts of one instance batch, in mesh order
MeshInstanceCounts(mesh_batch, instance_batch) ==
    [i \in 1..Len(mesh_batch.meshes) |->
        Cardinality({e \in instance_batch.instances \cap DOMAIN instances :
                        instances[e].mesh = mesh_batch.meshes[i]})
        + SumSeq([k \in 1..Len(FilterSeq(QueryInstanceSlice,
                                         DOMAIN instance_batch.instance_slice_ranges)) |->
                    LET e == FilterSeq(QueryInstanceSlice,
                                       DOMAIN instance_batch.instance_slice_ranges)[k]
                    IN IF instance_slices[e].mesh = mesh_batch.meshes[i]
                       THEN instance_slices[e].instance_count ELSE 0])]

\* element counts that take the vertex count of every mesh
MeshElementCountsByVertices(mesh_batch) ==
    [i \in 1..Len(mesh_batch.meshes) |-> render_meshes[mesh_batch.meshes[i]].vertex_count]

\* the per-mesh element counts the vertex offsets are summed from
MeshElementCounts(mesh_batch) ==
    [i \in 1..Len(mesh_batch.meshes) |->
        LET ibd == render_meshes[mesh_batch.meshes[i]].index_buffer_data
        IN IF ibd.tag = "Indexed" THEN Len(ibd.indices) ELSE ibd.vertex_count]

\* what prepare_batched_instances builds for one key of one view
BatchedKey(v, c) ==
    LET mesh_batch == instance_meta[v].mesh_batches[MeshPart(c)]
        counts == MeshInstanceCounts(mesh_batch, instance_meta[v].instance_batches[c])
        elems == MeshElementCounts(mesh_batch)
        is_indexed == mesh_batch.key.index_format # "None"
        gpu_instances == view_instance_data[v][c]
        split == CreateIndirectBuffer(is_indexed, mesh_batch.indirect_data, counts,
                                      elems, gpu_instances.kind, uniform_buffer_length)
    IN [mesh_instance_counts |-> counts,
        mesh_instance_offsets |-> MeshInstanceOffsets(counts),
        mesh_vertex_offsets |-> MeshVertexOffsets(elems),
        is_indexed |-> is_indexed,
        indirect_data |-> IF is_indexed
                          THEN IndirectDataIndexed(mesh_batch.indirect_data, counts, elems)
                          ELSE IndirectDataNonIndexed(mesh_batch.indirect_data, counts, elems),
        split_data |-> split.split_data,
        overflow |-> split.overflow,
        batches |-> PairBatches(gpu_instances, split.split_data)]

\* the first unwrap of prepare_batched_instances that meets None
BatchedUnwrapNone ==
    \E v \in DOMAIN instance_meta :
        \/ v \notin DOMAIN view_instance_data
        \/ \E c \in DOMAIN instance_meta[v].instance_batches :
              MeshPart(c) \notin DOMAIN instance_meta[v].mesh_batches

\* prepare_batched_instances
PrepareBatchedInstances ==
    /\ stage = "PrepareBatchedInstances"
    /\ IF BatchedUnwrapNone
       THEN /\ Panic("called Option::unwrap() on a None value")
            /\ UNCHANGED instance_meta
       ELSE LET batched == [v \in DOMAIN instance_meta |->
                               [c \in DOMAIN instance_meta[v].instance_batches |->
                                   BatchedKey(v, c)]]
            IN \/ /\ \E v \in DOMAIN batched : \E c \in DOMAIN batched[v] :
                        batched[v][c].overflow
                  /\ Panic("attempt to subtract with overflow")
                  /\ UNCHANGED instance_meta
               \/ /\ instance_meta' =
                        [v \in DOMAIN instance_meta |->
                            [instance_meta[v] EXCEPT !.batched_instances = batched[v]]]
                  /\ Finish("PrepareBatchedInstances")
                  /\ UNCHANGED panicked
    /\ UNCHANGED <<world, render_meshes, gpu_images, render_materials,
                   view_instance_data, material_batches, render_phases, error_log,
                   frame>>

\* a phase choice that sends Mask to the opaque phase
PhaseOfMaskAsOpaque(alpha_rank) ==
    CASE alpha_rank = 0 -> "opaque"
      [] alpha_rank = 1 -> "opaque"
      [] alpha_rank = 2 -> "transparent"

\* the phase an alpha mode is queued to
PhaseOf(alpha_rank) ==
    CASE alpha_rank = 0 -> "opaque"
      [] alpha_rank = 1 -> "alpha_mask"
      [] alpha_rank = 2 -> "transparent"

\* a queue loop that ends at the first key whose specialization fails
RECURSIVE QueuedItemsUntilError(_, _, _)
QueuedItemsUntilError(keys, failed, phase) ==
    IF keys = <<>> \/ Head(keys) \in failed THEN <<>>
    ELSE IF PhaseOf(Head(keys)[3]) = phase
         THEN <<[key |-> Head(keys), distance |-> 0]>>
              \o QueuedItemsUntilError(Tail(keys), failed, phase)
         ELSE QueuedItemsUntilError(Tail(keys), failed, phase)

\* the items queue_instanced_materials adds to one phase of a view: one per
\* batch key whose pipeline specialization succeeds, in key order
RECURSIVE QueuedItems(_, _, _)
QueuedItems(keys, failed, phase) ==
    IF keys = <<>> THEN <<>>
    ELSE IF Head(keys) \notin failed /\ PhaseOf(Head(keys)[3]) = phase
         THEN <<[key |-> Head(keys), distance |-> 0]>>
              \o QueuedItems(Tail(keys), failed, phase)
         ELSE QueuedItems(Tail(keys), failed, phase)

\* the batch keys of a view in the order of the BTreeMap
RECURSIVE KeySeq(_)
KeySeq(S) ==
    IF S = {} THEN <<>>
    ELSE LET least == CHOOSE c \in S : \A d \in S :
                         \/ c = d
                         \/ \E k \in 1..4 : /\ c[k] < d[k]
                                            /\ \A j \in 1..(k - 1) : c[j] = d[j]
         IN <<least>> \o KeySeq(S \ {least})

\* the keys of all views that queue_instanced_materials walks
QueuedKeys == UNION {{<<v, c>> : c \in DOMAIN instance_meta[v].batched_instances} :
                        v \in DOMAIN instance_meta}

\* queue_instanced_materials; `failed` are the keys whose pipeline
\* specialization returns an error
QueueInstancedMaterials ==
    /\ stage = "Queue"
    /\ IF \E vc \in QueuedKeys : MaterialPart(vc[2]) \notin DOMAIN material_batches
       THEN /\ Panic("called Option::unwrap() on a None value")
            /\ UNCHANGED <<render_phases, error_log>>
       ELSE \E failed \in SUBSET QueuedKeys :
               /\ error_log' = failed
               /\ render_phases' =
                     [v \in Views |->
                        IF v \in DOMAIN instance_meta
                        THEN [ph \in {"opaque", "alpha_mask", "transparent"} |->
                                 render_phases[v][ph] \o
                                 QueuedItems(
                                     KeySeq(DOMAIN instance_meta[v].batched_instances),
                                     {c \in DOMAIN instance_meta[v].batched_instances :
                                         <<v, c>> \in failed}, ph)]
                        ELSE render_phases[v]]
               /\ Finish("Queue")
               /\ UNCHANGED panicked
    /\ UNCHANGED <<world, render_meshes, gpu_images, render_materials, instance_meta,
                   view_instance_data, material_batches, frame>>


\* ------------------------------------------------------- instance compute
WORKGROUP_SIZE == 64

Max(a, b) == IF a >= b THEN a ELSE b

\* the workgroups InstanceComputeNode::run dispatches for a job
InstanceWorkgroups(instance_count) == Max(instance_count \div WORKGROUP_SIZE, 1)

\* the InstanceSliceRange a slice entity carries after the Prepare stage:
\* the bundle inserted for the last view that holds the slice
InstanceSliceRangeOf(e) ==
    (CHOOSE t \in InstanceSliceTargets :
        /\ t.entity = e
        /\ \A u \in InstanceSliceTargets : u.entity = e => u.view <= t.view).range

\* queue_compute_instances: one job per slice entity that carries a range
\* and a target; it shares no data with queue_instanced_materials and is
\* taken here once that system has finished
QueueComputeInstances ==
    /\ stage = "Done"
    /\ LET slices == SelectSeq(QueryInstanceSlice,
                               LAMBDA e : \E t \in InstanceSliceTargets : t.entity = e)
       IN instance_compute_queue' =
             [k \in 1..Len(slices) |->
                 [entity |-> slices[k],
                  instance_count |-> InstanceSliceRangeOf(slices[k]).instance_count]]
    /\ stage' = "InstanceComputeNode"
    /\ UNCHANGED <<backing, uniform_buffer_length, mesh_assets, mesh_events,
                   render_meshes, material_assets, gpu_images, render_materials,
                   instances, instance_slices, visible_entities, instance_meta,
                   view_instance_data, material_batches, render_phases, error_log,
                   dispatched, ran, frame, panicked>>

\* InstanceComputeNode::run: one compute pass per job of the queue
InstanceComputeNodeRun ==
    /\ stage = "InstanceComputeNode"
    /\ dispatched' =
          [k \in 1..Len(instance_compute_queue) |->
              [entity |-> instance_compute_queue[k].entity,
               instance_count |-> instance_compute_queue[k].instance_count,
               workgroups |->
                   InstanceWorkgroups(instance_compute_queue[k].instance_count)]]
    /\ stage' = "Rendered"
    /\ UNCHANGED <<backing, uniform_buffer_length, mesh_assets, mesh_events,
                   render_meshes, material_assets, gpu_images, render_materials,
                   instances, instance_slices, visible_entities, instance_meta,
                   view_instance_data, material_batches, render_phases, error_log,
                   instance_compute_queue, ran, frame, panicked>>

\* the textures that may finish loading between two frames
FrameTextures == {1}

\* what the view may see in a frame
FrameVisible == {<<>>, <<1>>, <<2>>, <<1, 2>>}

\* the start of the next frame: the main world may have loaded the texture
\* and changed what the view sees; the render world keeps its resources
BeginFrame ==
    /\ stage = "Done"
    /\ frame < MaxFrames
    /\ frame' = frame + 1
    /\ \E loaded \in SUBSET FrameTextures : gpu_images' = gpu_images \cup loaded
    /\ \E seen \in FrameVisible : visible_entities' = [v \in Views |-> seen]
    /\ mesh_events' = <<>>
    /\ error_log' = {}
    /\ ran' = {}
    /\ stage' \in Schedule({})
    /\ UNCHANGED <<backing, uniform_buffer_length, mesh_assets, render_meshes,
                   material_assets, render_materials, instances, instance_slices,
                   instance_meta, view_instance_data, material_batches, render_phases,
                   instance_compute_queue,
                   dispatched, panicked>>

\* the mesh handles of the asset family
MeshHandles == {1, 2}

\* the mesh a handle gets when its asset is created
CreatedMesh ==
    [primitive_topology |-> 3, layout |-> 0, index_format |-> "Uint32",
     vertex_count |-> 3, indices |-> <<0, 1, 2>>]

\* a mesh after a change of its vertices
ModifiedMesh(mesh) == [mesh EXCEPT !.vertex_count = IF @ = 3 THEN 4 ELSE 3]

\* the asset events the main world can emit for its mesh assets: Created
\* for a handle without asset, Modified and Removed for one with an asset
EnabledAssetEvents(assets) ==
    {[kind |-> "Created", handle |-> h] : h \in MeshHandles \ DOMAIN assets}
    \cup {[kind |-> k, handle |-> h] : k \in {"Modified", "Removed"}, h \in DOMAIN assets}

\* the mesh assets after the change an event reports
ApplyAssetEvent(assets, ev) ==
    CASE ev.kind = "Created" ->
            [h \in DOMAIN assets \cup {ev.handle} |->
                IF h = ev.handle THEN CreatedMesh ELSE assets[h]]
      [] ev.kind = "Modified" ->
            [assets EXCEPT ![ev.handle] = ModifiedMesh(@)]
      [] ev.kind = "Removed" ->
            [h \in DOMAIN assets \ {ev.handle} |-> assets[h]]

\* the event lists of at most n events the main world can emit in a frame,
\* each with the mesh assets it leaves
RECURSIVE AssetRuns(_, _)
AssetRuns(assets, n) ==
    {[events |-> <<>>, assets |-> assets]}
    \cup (IF n = 0 THEN {}
          ELSE UNION {{[events |-> <<ev>> \o run.events, assets |-> run.assets] :
                          run \in AssetRuns(ApplyAssetEvent(assets, ev), n - 1)} :
                         ev \in EnabledAssetEvents(assets)})

\* the start of the next frame of the asset family: the main world has
\* changed mesh assets and the reader holds the events of the changes
BeginFrameMeshEvents ==
    /\ stage = "Done"
    /\ frame < MaxFrames
    /\ frame' = frame + 1
    /\ \E run \in AssetRuns(mesh_assets, MaxEvents) :
          /\ mesh_events' = run.events
          /\ mesh_assets' = run.assets
    /\ error_log' = {}
    /\ ran' = {}
    /\ stage' \in Schedule({})
    /\ UNCHANGED <<backing, uniform_buffer_length, render_meshes, material_assets,
                   gpu_images, render_materials, instances, instance_slices,
                   visible_entities, instance_meta, view_instance_data,
                   material_batches, render_phases, instance_compute_queue,
                   dispatched, panicked>>

\* what the view of the slice family may see in a frame: entity 1 is a plain
\* instance, entities 2 and 3 are instance slices
SliceVisible == {<<1, 2, 3>>, <<1, 3, 2>>, <<2, 3>>, <<1>>}

\* the start of the next frame of the slice family: the view sees another
\* list of entities; the render world keeps its resources
BeginFrameSlices ==
    /\ stage = "Done"
    /\ frame < MaxFrames
    /\ frame' = frame + 1
    /\ \E seen \in SliceVisible : visible_entities' = [v \in Views |-> seen]
    /\ mesh_events' = <<>>
    /\ error_log' = {}
    /\ ran' = {}
    /\ stage' \in Schedule({})
    /\ UNCHANGED <<backing, uniform_buffer_length, mesh_assets, render_meshes,
                   material_assets, gpu_images, render_materials, instances,
                   instance_slices, instance_meta, view_instance_data,
                   material_batches, render_phases, instance_compute_queue,
                   dispatched, panicked>>

\* ------------------------------------------------------------ start states
\* the render world before the first frame, for a given main world
StartOf(bk, len, meshes, materials, images, insts, slices, seen) ==
    /\ backing = bk
    /\ uniform_buffer_length = len
    /\ mesh_assets = meshes
    /\ mesh_events = [h \in DOMAIN meshes |-> [kind |-> "Created", handle |-> h]]
    /\ render_meshes = <<>>
    /\ material_assets = materials
    /\ gpu_images = images
    /\ render_materials = <<>>
    /\ instances = insts
    /\ instance_slices = slices
    /\ visible_entities = seen
    /\ instance_meta = <<>>
    /\ view_instance_data = <<>>
    /\ material_batches = <<>>
    /\ render_phases = [v \in DOMAIN seen |-> EmptyPhases]
    /\ error_log = {}
    /\ instance_compute_queue = <<>>
    /\ dispatched = <<>>
    /\ stage \in Schedule({})
    /\ ran = {}
    /\ frame = 1
    /\ panicked = NoPanic

Material(mode, key, bias, texture) ==
    [alpha_mode |-> [mode |-> mode, cutoff |-> 0], batch_key |-> key,
     depth_bias |-> bias, texture |-> texture]

\* a mesh asset; the topology is the discriminant of PrimitiveTopology
\* (1 LineList, 3 TriangleList)
MeshAsset(topology, layout, index_format, vertex_count, indices) ==
    [primitive_topology |-> topology, layout |-> layout, index_format |-> index_format,
     vertex_count |-> vertex_count,
     indices |-> IF index_format = "None" THEN <<>> ELSE indices]

\* the instance entities of a batch with the given per-mesh counts: a mesh
\* without live instances is referenced by one instance whose material
\* waits for its texture
CountedInstances(counts) ==
    Flatten([i \in 1..Len(counts) |->
                IF counts[i] = 0
                THEN <<[mesh |-> i, material |-> 2, transform |-> 0]>>
                ELSE [k \in 1..counts[i] |->
                         [mesh |-> i, material |-> 1, transform |-> k]]])

\* one view, one batch of meshes of one key with the given instance counts
StartCounted(bk, len, index_format, counts) ==
    StartOf(bk, len,
            [h \in 1..Len(counts) |-> MeshAsset(3, 0, index_format, 3, <<0, 1, 2>>)],
            <<Material("Opaque", 0, 0, 0), Material("Opaque", 1, 0, 1)>>,
            {0}, CountedInstances(counts), <<>>,
            [v \in {1} |-> [e \in 1..Len(CountedInstances(counts)) |-> e]])

InitSplit ==
    \E bk \in {"Uniform", "Storage"}, index_format \in {"Uint32", "None"} :
        \/ \E len \in 1..MaxCapacity, n \in 1..MaxMeshes :
              \E counts \in [1..n -> 0..MaxCount] :
                  StartCounted(bk, len, index_format, counts)
        \/ StartCounted(bk, 112, index_format, <<80, 80>>)

\* what one instance of the sorted batches may be: on either mesh, at
\* rangefinder distance 1, 3 or 5 with the plain material, or at distance 1
\* with the material that has a depth bias
InstanceChoices ==
    {[mesh |-> m, material |-> 1, transform |-> z] : m \in {1, 2}, z \in {1, 3, 5}}
    \cup {[mesh |-> m, material |-> 2, transform |-> 1] : m \in {1, 2}}

\* one view, two meshes of one key, two materials of one key and alpha mode
Init ==
    \E mode \in {"Opaque", "Mask", "Blend"} :
        \E insts \in [1..NumInstances -> InstanceChoices] :
            StartOf("Storage", MaxCapacity,
                    [h \in {1, 2} |-> MeshAsset(3, 0, "Uint32", 3, <<0, 1, 2>>)],
                    <<Material(mode, 0, 0, 0), Material(mode, 0, 3, 0)>>,
                    {0}, insts, <<>>,
                    [v \in {1} |-> [e \in 1..NumInstances |-> e]])

\* the mesh assets of the mesh family
MeshKinds ==
    {MeshAsset(t, l, f, 4, <<0, 1, 2, 0, 2, 3>>) :
        t \in {1, 3}, l \in {0, 1}, f \in {"None", "Uint16", "Uint32"}}
    \cup {MeshAsset(3, 0, "Uint16", 6, <<0, 5>>),
          MeshAsset(3, 0, "Uint16", 65534, <<0, 3>>)}

\* one view, three meshes of any kind, one instance of each
InitMesh ==
    \E kinds \in [{1, 2, 3} -> MeshKinds] :
        StartOf("Storage", MaxCapacity, kinds,
                <<Material("Opaque", 0, 0, 0)>>, {0},
                [e \in {1, 2, 3} |-> [mesh |-> e, material |-> 1, transform |-> e]],
                <<>>, [v \in {1} |-> <<1, 2, 3>>])

\* one view, two instances whose materials may wait for texture 1
InitFrame ==
    \E bk \in {"Uniform", "Storage"}, seen \in FrameVisible :
        \E mats \in [{1, 2} -> {1, 2}], meshes \in [{1, 2} -> {1, 2}] :
            StartOf(bk, MaxCapacity,
                    <<MeshAsset(3, 0, "Uint32", 3, <<0, 1, 2>>),
                      MeshAsset(1, 0, "Uint32", 2, <<0, 1>>)>>,
                    <<Material("Opaque", 0, 0, 0), Material("Opaque", 1, 0, 1)>>,
                    {0},
                    [e \in {1, 2} |-> [mesh |-> meshes[e], material |-> mats[e],
                                       transform |-> e]],
                    <<>>, [v \in {1} |-> seen])

\* one view, one instance on each of two mesh handles; the asset of the
\* second handle may not be loaded yet
InitAssets ==
    \E loaded \in {{1}, {1, 2}}, seen \in {<<1, 2>>, <<1>>} :
        StartOf("Storage", MaxCapacity,
                [h \in loaded |-> CreatedMesh],
                <<Material("Opaque", 0, 0, 0)>>, {0},
                [e \in {1, 2} |-> [mesh |-> e, material |-> 1, transform |-> e]],
                <<>>, [v \in {1} |-> seen])

\* the materials of the queue family: one per alpha mode with batch key 0,
\* an opaque one with batch key 1, and an opaque one with batch key 0 that
\* waits for texture 1
QueueMaterials ==
    <<Material("Opaque", 0, 0, 0), Material("Mask", 0, 0, 0),
      Material("Blend", 0, 0, 0), Material("Opaque", 1, 0, 0),
      Material("Opaque", 0, 0, 1)>>

\* what the two views of the queue family may see
QueueVisible ==
    {<<(<<1, 2, 3>>), (<<2, 1>>)>>, <<(<<1, 2>>), (<<>>)>>,
     <<(<<2, 1, 3>>), (<<1>>)>>, <<(<<1>>), (<<3>>)>>}

\* two views, two plain instances at one distance and one instance slice,
\* each with any of the materials
InitQueue ==
    \E m1 \in 1..5, m2 \in 1..5, m3 \in 1..5, h2 \in {1, 2}, seen \in QueueVisible :
        StartOf("Storage", MaxCapacity,
                <<MeshAsset(3, 0, "Uint32", 3, <<0, 1, 2>>),
                  MeshAsset(1, 0, "Uint32", 2, <<0, 1>>)>>,
                QueueMaterials, {0},
                <<[mesh |-> 1, material |-> m1, transform |-> 1],
                  [mesh |-> h2, material |-> m2, transform |-> 1]>>,
                [e \in {3} |-> [mesh |-> 1, material |-> m3, instance_count |-> 2]],
                seen)

\* one view, two meshes of one key, one plain instance and two instance
\* slices of one material, each on either mesh
InitSlices ==
    \E m1 \in {1, 2}, m2 \in {1, 2}, m3 \in {1, 2}, seen \in SliceVisible :
        StartOf("Storage", MaxCapacity,
                [h \in {1, 2} |-> MeshAsset(3, 0, "Uint32", 3, <<0, 1, 2>>)],
                <<Material("Opaque", 0, 0, 0)>>, {0},
                [e \in {1} |-> [mesh |-> m1, material |-> 1, transform |-> 1]],
                [e \in {2, 3} |->
                    [mesh |-> IF e = 2 THEN m2 ELSE m3, material |-> 1,
                     instance_count |-> IF e = 2 THEN 2 ELSE 1]],
                [v \in {1} |-> seen])

\* the instance counts of the slices of the compute family
ComputeCounts == {1, 63, 64, 65, 100, 128, 129}

\* what the view of the compute family may see: entity 1 is a plain
\* instance, entities 2 and 3 are instance slices
ComputeVisible == {<<1, 2>>, <<1, 2, 3>>, <<1, 3, 2>>, <<1>>}

\* one view, one mesh, one material, a plain instance and two instance slices
InitCompute ==
    \E c2 \in ComputeCounts, c3 \in ComputeCounts, seen \in ComputeVisible :
        StartOf("Storage", MaxCapacity,
                [h \in {1} |-> MeshAsset(3, 0, "Uint32", 3, <<0, 1, 2>>)],
                <<Material("Opaque", 0, 0, 0)>>, {0},
                [e \in {1} |-> [mesh |-> 1, material |-> 1, transform |-> 1]],
                [e \in {2, 3} |->
                    [mesh |-> 1, material |-> 1,
                     instance_count |-> IF e = 2 THEN c2 ELSE c3]],
                [v \in {1} |-> seen])

\* ------------------------------------------------------------ the machine
Next ==
    \/ ExtractInstancedMeshes
    \/ ExtractInstancedViewMeta
    \/ PrepareViewInstances
    \/ PrepareAssets
    \/ PrepareMeshBatches
    \/ PrepareMaterialBatches
    \/ PrepareInstanceBatches
    \/ PrepareBatchedInstances
    \/ QueueInstancedMaterials

NextFrame == Next \/ BeginFrame

NextAssets == Next \/ BeginFrameMeshEvents

NextSlices == Next \/ BeginFrameSlices

NextCompute == Next \/ QueueComputeInstances \/ InstanceComputeNodeRun

Spec == Init /\ [][Next]_vars

SpecSplit == InitSplit /\ [][Next]_vars

SpecMesh == InitMesh /\ [][Next]_vars

SpecFrame == InitFrame /\ [][NextFrame]_vars

SpecQueue == InitQueue /\ [][Next]_vars

SpecAssets == InitAssets /\ [][NextAssets]_vars

SpecSlices == InitSlices /\ [][NextSlices]_vars

SpecCompute == InitCompute /\ [][NextCompute]_vars

\* ------------------------------------------------------------ properties
\* the batches prepare_batched_instances has written this frame
Batched ==
    IF stage \in {"Queue", "Done"}
    THEN UNION {{<<v, c>> : c \in DOMAIN instance_meta[v].batched_instances} :
                   v \in DOMAIN instance_meta}
    ELSE {}

BatchOf(vc) == instance_meta[vc[1]].batched_instances[vc[2]]

\* the indexed batches split for a uniform-backed instance buffer
UniformBatched ==
    {vc \in Batched : /\ view_instance_data[vc[1]][vc[2]].kind = "Uniform"
                      /\ instance_meta[vc[1]].batched_instances[vc[2]].is_indexed}

\* the instance buffers the packer has written this frame
Packed ==
    IF stage \in {"PrepareBatchedInstances", "Queue", "Done"}
    THEN UNION {{<<v, c>> : c \in DOMAIN instance_meta[v].instance_batches} :
                   v \in DOMAIN instance_meta}
    ELSE {}

PackedData(vc) == view_instance_data[vc[1]][vc[2]].data

\* the mesh batches prepare_mesh_batches has written this frame
MeshBatched ==
    IF "PrepareMeshBatches" \in ran
    THEN UNION {{<<v, k>> : k \in DOMAIN instance_meta[v].mesh_batches} :
                   v \in DOMAIN instance_meta}
    ELSE {}

MeshBatchAt(vk) == instance_meta[vk[1]].mesh_batches[vk[2]]

\* instance_count and base_instance of the records of one split group
CountAndBase(group) ==
    [k \in 1..Len(group) |-> <<group[k].instance_count, group[k].base_instance>>]

GroupCount(group) == SumSeq([k \in 1..Len(group) |-> group[k].instance_count])

\* the view distance of an instance: rangefinder distance plus depth bias
ViewDistance(v, e) ==
    RangefinderDistance(v, instances[e].transform)
    + material_assets[instances[e].material].depth_bias

\* C1: in the split of an indexed batch for a uniform buffer of capacity C
\* the records of every group lie one after the other from base_instance 0,
\* every group before the last is filled to exactly C (a record that would
\* pass C is cut at the boundary and its tail opens the next group), no split
\* stops the frame, and C = 112 with counts [80, 80] gives
\* [(80, 0), (32, 80)] and [(48, 0)].
C1_SplitAtBoundary ==
    /\ panicked # <<"PrepareBatchedInstances", "attempt to subtract with overflow">>
    /\ \A vc \in UniformBatched :
             /\ \A g \in 1..Len(BatchOf(vc).split_data) :
                   LET group == BatchOf(vc).split_data[g]
                   IN /\ \A k \in 1..Len(group) :
                            group[k].base_instance =
                               SumSeq([j \in 1..(k - 1) |-> group[j].instance_count])
                      /\ g < Len(BatchOf(vc).split_data) =>
                            GroupCount(group) = uniform_buffer_length
             /\ (uniform_buffer_length = 112
                 /\ BatchOf(vc).mesh_instance_counts = <<80, 80>>) =>
                   [g \in 1..Len(BatchOf(vc).split_data) |->
                       CountAndBase(BatchOf(vc).split_data[g])]
                   = << <<(<<80, 0>>), (<<32, 80>>)>>, <<(<<48, 0>>)>> >>

\* C2: every record of every split group of an indexed uniform-backed batch ends
\* within the capacity: base_instance + instance_count <= C.
C2_RecordWithinCapacity ==
    \A vc \in UniformBatched :
        \A g \in 1..Len(BatchOf(vc).split_data) :
            \A k \in 1..Len(BatchOf(vc).split_data[g]) :
                LET r == BatchOf(vc).split_data[g][k]
                IN /\ LeU32(r.instance_count, uniform_buffer_length)
                   /\ LeU32(r.base_instance, uniform_buffer_length)
                   /\ r.base_instance + r.instance_count <= uniform_buffer_length

\* C3: the records of the split groups of an indexed uniform-backed batch
\* hold counts of instances that add up to the instances of the batch, and
\* the drawable batches pair every split group with an instance buffer and
\* every instance buffer with a group.
C3_NoInstanceLost ==
    \A vc \in UniformBatched :
        /\ \A g \in 1..Len(BatchOf(vc).split_data) :
              \A k \in 1..Len(BatchOf(vc).split_data[g]) :
                 BatchOf(vc).split_data[g][k].instance_count >= 0
        /\ SumSeq([g \in 1..Len(BatchOf(vc).split_data) |->
                      GroupCount(BatchOf(vc).split_data[g])])
           = SumSeq(BatchOf(vc).mesh_instance_counts)
        /\ Len(BatchOf(vc).batches) = Len(BatchOf(vc).split_data)
        /\ Len(BatchOf(vc).batches) = Len(view_instance_data[vc[1]][vc[2]].buffers)

\* C4: the base-instance offset computed for a mesh of a batch is the number
\* of instances of the batch on the meshes before it in mesh order.
C4_OffsetIsPrefixSum ==
    \A vc \in Batched :
        LET meshes == instance_meta[vc[1]].mesh_batches[MeshPart(vc[2])].meshes
            batch == instance_meta[vc[1]].instance_batches[vc[2]]
        IN \A i \in 1..Len(meshes) :
              BatchOf(vc).mesh_instance_offsets[i] =
                 Cardinality({e \in batch.instances :
                                 \E j \in 1..(i - 1) : instances[e].mesh = meshes[j]})
                 + SumSeq([k \in 1..Len(QueryInstanceSlice) |->
                             IF /\ QueryInstanceSlice[k] \in DOMAIN batch.instance_slice_ranges
                                /\ \E j \in 1..(i - 1) :
                                      instance_slices[QueryInstanceSlice[k]].mesh = meshes[j]
                             THEN instance_slices[QueryInstanceSlice[k]].instance_count
                             ELSE 0])

\* a batch of three meshes with instances on each: the third offset follows
\* the second, which follows 0
C4_Witness ==
    \E vc \in Batched :
        /\ Len(BatchOf(vc).mesh_instance_offsets) = 3
        /\ BatchOf(vc).mesh_instance_counts[1] = 2
        /\ BatchOf(vc).mesh_instance_counts[2] = 1
        /\ BatchOf(vc).mesh_instance_offsets = <<0, 2, 3>>

\* C5: the finalized records of a batch, indexed or not, are the meshes of
\* the mesh batch with a non-zero instance count, in mesh order.
C5_RecordsAreLiveMeshes ==
    \A vc \in Batched :
        LET meshes == instance_meta[vc[1]].mesh_batches[MeshPart(vc[2])].meshes
            live == SelectSeq([i \in 1..Len(meshes) |-> i],
                              LAMBDA i : BatchOf(vc).mesh_instance_counts[i] > 0)
        IN [k \in 1..Len(BatchOf(vc).indirect_data) |-> BatchOf(vc).indirect_data[k].mesh]
           = [k \in 1..Len(live) |-> meshes[live[k]]]

\* the entities of a packed buffer that are on the mesh of its entry i
SameMeshBefore(vc, i) ==
    {j \in 1..(i - 1) :
        instances[PackedData(vc)[j].entity].mesh = instances[PackedData(vc)[i].entity].mesh}

\* C6: within one batch and one mesh the instances are packed by view
\* distance (rangefinder distance plus depth bias): ascending for a Blend
\* batch, descending for an Opaque or Mask batch.
C6_PackedByDistance ==
    \A vc \in Packed :
        \A i \in 1..Len(PackedData(vc)) : \A j \in SameMeshBefore(vc, i) :
            IF vc[2][3] = AlphaRank("Blend")
            THEN ViewDistance(vc[1], PackedData(vc)[j].entity)
                 <= ViewDistance(vc[1], PackedData(vc)[i].entity)
            ELSE ViewDistance(vc[1], PackedData(vc)[j].entity)
                 >= ViewDistance(vc[1], PackedData(vc)[i].entity)

\* C6 as the specification states it: descending for a Blend batch,
\* ascending for an Opaque or Mask batch.
C6_PackedAsStated ==
    \A vc \in Packed :
        \A i \in 1..Len(PackedData(vc)) : \A j \in SameMeshBefore(vc, i) :
            IF vc[2][3] = AlphaRank("Blend")
            THEN ViewDistance(vc[1], PackedData(vc)[j].entity)
                 >= ViewDistance(vc[1], PackedData(vc)[i].entity)
            ELSE ViewDistance(vc[1], PackedData(vc)[j].entity)
                 <= ViewDistance(vc[1], PackedData(vc)[i].entity)

\* a Blend batch of one mesh with instances at distances 3, 1, 5 packed 1, 3, 5
C6_Witness ==
    \E vc \in Packed :
        /\ vc[2][3] = AlphaRank("Blend")
        /\ [e \in 1..3 |-> instances[e].mesh] = <<1, 1, 1>>
        /\ [e \in 1..3 |-> ViewDistance(vc[1], e)] = <<3, 1, 5>>
        /\ [i \in 1..Len(PackedData(vc)) |-> PackedData(vc)[i].entity] = <<2, 1, 3>>

\* C7: in the packed instances of a batch the instances of one mesh are
\* adjacent and the meshes follow each other in ascending mesh identity.
C7_MeshContiguity ==
    \A vc \in Packed :
        \A i \in 1..Len(PackedData(vc)) : \A j \in 1..(i - 1) :
            instances[PackedData(vc)[j].entity].mesh
            <= instances[PackedData(vc)[i].entity].mesh

\* the nearer instance of mesh 2 comes before the instances of mesh 1 in the
\* view's list and is packed behind them
C7_Witness ==
    \E vc \in Packed :
        /\ instances[1].mesh = 2
        /\ instances[2].mesh = 1
        /\ instances[3].mesh = 1
        /\ instances[1].transform = 1
        /\ instances[2].transform = 5
        /\ Len(PackedData(vc)) = 3
        /\ PackedData(vc)[3].entity = 1

\* the index list of mesh h rebased by `base`, without any integer width
RebasedIndices(h, base) ==
    [i \in 1..Len(render_meshes[h].index_buffer_data.indices) |->
        render_meshes[h].index_buffer_data.indices[i] + base]

\* C8: the concatenated index buffer of an indexed mesh batch is every
\* mesh's index list, in mesh order, with each index increased by the sum of
\* the vertex counts of the meshes before it; the index count is the sum of
\* the meshes' index counts; building it does not stop the frame.
C8_IndicesRebased ==
    /\ panicked # <<"PrepareMeshBatches", "attempt to add with overflow">>
    /\ \A vk \in MeshBatched :
          MeshBatchAt(vk).index_data.tag = "Indexed" =>
             LET meshes == MeshBatchAt(vk).meshes
             IN /\ MeshBatchAt(vk).index_data.indices =
                      Flatten([m \in 1..Len(meshes) |->
                          RebasedIndices(meshes[m],
                              SumSeq([j \in 1..(m - 1) |->
                                  render_meshes[meshes[j]].vertex_count]))])
                /\ MeshBatchAt(vk).index_data.index_count =
                      SumSeq([m \in 1..Len(meshes) |->
                          Len(render_meshes[meshes[m]].index_buffer_data.indices)])

\* C9: two meshes of one mesh batch have the same primitive topology, the
\* same vertex buffer layout and the same index format.
C9_SameKeyInBatch ==
    \A vk \in MeshBatched :
        \A a \in RangeOf(MeshBatchAt(vk).meshes), b \in RangeOf(MeshBatchAt(vk).meshes) :
            /\ render_meshes[a].key.primitive_topology = render_meshes[b].key.primitive_topology
            /\ render_meshes[a].key.layout = render_meshes[b].key.layout
            /\ render_meshes[a].key.index_format = render_meshes[b].key.index_format

\* the instances a view sees whose material is not prepared
Unprepared(v) ==
    {e \in RangeOf(visible_entities[v]) \cap DOMAIN instances :
        instances[e].material \notin DOMAIN render_materials}

\* C10: in the first frame, with instances whose material is not prepared,
\* the prepare and queue stages do not panic; in every frame those instances
\* are in no instance batch of the view and an instance whose material is
\* prepared is in exactly one instance batch.
C10_UnpreparedSkipped ==
    "PrepareAssets" \in ran =>
        \A v \in Views :
            /\ (frame = 1 /\ Unprepared(v) # {}) => panicked = NoPanic
            /\ v \in DOMAIN instance_meta =>
                  \A c \in DOMAIN instance_meta[v].instance_batches :
                      instance_meta[v].instance_batches[c].instances
                      \cap Unprepared(v) = {}
            /\ (v \in DOMAIN instance_meta
                /\ stage \in {"PrepareBatchedInstances", "Queue", "Done"}) =>
                  \A e \in (RangeOf(visible_entities[v]) \cap DOMAIN instances)
                           \ Unprepared(v) :
                      Cardinality({c \in DOMAIN instance_meta[v].instance_batches :
                          e \in instance_meta[v].instance_batches[c].instances}) = 1

\* the visible plain instances of a view whose mesh is in the registry and
\* whose material is prepared
ReadyInstances(v) ==
    {e \in RangeOf(visible_entities[v]) \cap DOMAIN instances :
        /\ instances[e].mesh \in DOMAIN render_meshes
        /\ instances[e].material \in DOMAIN render_materials}

\* the batch key of a ready instance: topology and index format of its mesh,
\* alpha mode and batch key of its material
OwnKey(e) ==
    <<mesh_assets[instances[e].mesh].primitive_topology,
      IndexFormatRank(mesh_assets[instances[e].mesh].index_format),
      AlphaRank(material_assets[instances[e].material].alpha_mode.mode),
      material_assets[instances[e].material].batch_key>>

\* how often entity e is in the packed instances of batch vc
TimesPacked(vc, e) ==
    Cardinality({i \in 1..Len(PackedData(vc)) : PackedData(vc)[i].entity = e})

PackedFor(v, list) ==
    LET keyed == KeyedBy(CollectInstances(v, list, instances, render_meshes,
                                          render_materials))
    IN {InstanceBufferData(sorted, KeyedInstanceSlices(v),
                           instance_meta[v].mesh_batches) :
           sorted \in DepFuns(DOMAIN keyed,
                              [c \in DOMAIN keyed |-> SortedInstances(keyed[c])])}

\* no two visible plain instances of view v share mesh, material key and
\* view distance
NoTies(v) ==
    \A a, b \in ReadyInstances(v) :
        (/\ a # b
         /\ instances[a].mesh = instances[b].mesh
         /\ OwnKey(a) = OwnKey(b)) => ViewDistance(v, a) # ViewDistance(v, b)

\* C12: the concatenated vertex and index data of a view's mesh batches and
\* the packed instance buffer of every batch are the same for every order
\* in which the view's visible entities are enumerated.
C12_SameBuffersInAnyOrder ==
    stage \in {"PrepareBatchedInstances", "Queue", "Done"} =>
        \A v \in DOMAIN instance_meta :
            \A list \in PermSeqs(RangeOf(instance_meta[v].instances)) :
                /\ instance_meta[v].mesh_batches =
                      MeshBatchesOf(
                          ViewMeshHandles([instance_meta[v] EXCEPT !.instances = list]),
                          render_meshes)
                /\ \A data \in PackedFor(v, list) :
                      \A c \in DOMAIN data : data[c] = PackedData(<<v, c>>)

\* the visible instance slices of a view whose mesh is in the registry and
\* whose material is prepared
ReadySlices(v) ==
    {e \in RangeOf(visible_entities[v]) \cap DOMAIN instance_slices :
        /\ instance_slices[e].mesh \in DOMAIN render_meshes
        /\ instance_slices[e].material \in DOMAIN render_materials}

\* the batch key of a ready instance slice
OwnSliceKey(e) ==
    <<mesh_assets[instance_slices[e].mesh].primitive_topology,
      IndexFormatRank(mesh_assets[instance_slices[e].mesh].index_format),
      AlphaRank(material_assets[instance_slices[e].material].alpha_mode.mode),
      material_assets[instance_slices[e].material].batch_key>>

\* the batch keys that have a ready instance or slice in view v this frame
LiveKeys(v) ==
    {OwnKey(e) : e \in ReadyInstances(v)} \cup {OwnSliceKey(e) : e \in ReadySlices(v)}

\* the keys of the draw items queued for view v
QueuedItemKeys(v) ==
    UNION {{render_phases[v][ph][i].key : i \in 1..Len(render_phases[v][ph])} :
              ph \in {"opaque", "alpha_mask", "transparent"}}

\* C13: in every frame the instance batches, the drawable batches and the
\* queued draws of a view have only keys for which the view sees a ready
\* instance or instance slice in that frame.
C13_OnlyLiveKeys ==
    \A v \in DOMAIN instance_meta :
        /\ "PrepareInstanceBatches" \in ran =>
              DOMAIN instance_meta[v].instance_batches \subseteq LiveKeys(v)
        /\ "PrepareBatchedInstances" \in ran =>
              DOMAIN instance_meta[v].batched_instances \subseteq LiveKeys(v)
        /\ "Queue" \in ran => QueuedItemKeys(v) \subseteq LiveKeys(v)

\* the visible plain instances of a view whose mesh is not in the registry
MissingMesh(v) ==
    {e \in RangeOf(visible_entities[v]) \cap DOMAIN instances :
        instances[e].mesh \notin DOMAIN render_meshes}

\* C14: in a frame in which a view sees an instance whose mesh is not in
\* the mesh registry no system panics, the instance is in no instance batch,
\* and the view's instances with a registered mesh and a prepared material
\* are each in an instance batch.
C14_MissingMeshSkipped ==
    "ExtractInstancedMeshes" \in ran =>
        \A v \in Views : MissingMesh(v) # {} =>
            /\ panicked = NoPanic
            /\ "PrepareInstanceBatches" \in ran =>
                  /\ \A c \in DOMAIN instance_meta[v].instance_batches :
                        instance_meta[v].instance_batches[c].instances
                        \cap MissingMesh(v) = {}
                  /\ \A e \in ReadyInstances(v) :
                        \E c \in DOMAIN instance_meta[v].instance_batches :
                            e \in instance_meta[v].instance_batches[c].instances

\* the kind of the last event of handle h among the frame's mesh events,
\* "None" when the frame has no event of h
LastEventKind(h) ==
    LET of_h == {i \in 1..Len(mesh_events) : mesh_events[i].handle = h}
    IN IF of_h = {} THEN "None"
       ELSE mesh_events[CHOOSE i \in of_h : \A j \in of_h : j <= i].kind

\* the registry record rec holds what the mesh asset holds
BuiltFrom(rec, mesh) ==
    /\ rec.key.primitive_topology = mesh.primitive_topology
    /\ rec.key.layout = mesh.layout
    /\ rec.key.index_format = mesh.index_format
    /\ rec.vertex_count = mesh.vertex_count
    /\ IF mesh.index_format = "None"
       THEN /\ rec.index_buffer_data.tag = "NonIndexed"
            /\ rec.index_buffer_data.vertex_count = mesh.vertex_count
       ELSE /\ rec.index_buffer_data.tag = "Indexed"
            /\ rec.index_buffer_data.indices = mesh.indices
            /\ rec.index_buffer_data.index_count = Len(mesh.indices)
            /\ rec.index_buffer_data.index_format = mesh.index_format

\* C16: the registry update leaves every mesh handle as the last event of
\* the handle in the frame says: absent after Removed, a record built from
\* the current asset after Created or Modified when the asset is available,
\* the record it had when the frame has no event of the handle.
C16_RegistryFollowsLastEvent ==
    [][stage = "ExtractInstancedMeshes" =>
          \A h \in MeshHandles \cup DOMAIN render_meshes \cup DOMAIN mesh_assets :
              CASE LastEventKind(h) = "Removed" -> h \notin DOMAIN render_meshes'
                [] LastEventKind(h) \in {"Created", "Modified"}
                   /\ h \in DOMAIN mesh_assets ->
                      /\ h \in DOMAIN render_meshes'
                      /\ BuiltFrom(render_meshes'[h], mesh_assets[h])
                [] LastEventKind(h) = "None" ->
                      /\ h \in DOMAIN render_meshes' <=> h \in DOMAIN render_meshes
                      /\ h \in DOMAIN render_meshes =>
                            render_meshes'[h] = render_meshes[h]
                [] OTHER -> TRUE]_vars

\* a frame after the first in which handle 1 was removed and created again
\* and handle 2 had no event: the registry holds both
C16_Witness ==
    /\ "ExtractInstancedMeshes" \in ran
    /\ frame > 1
    /\ mesh_events = <<[kind |-> "Removed", handle |-> 1],
                       [kind |-> "Created", handle |-> 1]>>
    /\ DOMAIN render_meshes = {1, 2}

\* C17: in a frame without mesh asset events the mesh-batch stage leaves
\* the mesh batches as they are and does not stop the frame.
C17_RebuiltOnlyOnChange ==
    [][(stage = "PrepareMeshBatches" /\ mesh_events = <<>>) =>
          /\ instance_meta' = instance_meta
          /\ panicked' = panicked]_vars

\* the number of draw items queued for view v
QueuedItemCount(v) ==
    Len(render_phases[v].opaque) + Len(render_phases[v].alpha_mask)
    + Len(render_phases[v].transparent)

\* C15: when the queue stage has run, a batch whose pipeline specialization
\* failed has no draw item in any phase of its view, and every other batch
\* of every view has its draw item.
C15_FailedBatchSkipped ==
    "Queue" \in ran =>
        /\ panicked = NoPanic
        /\ \A v \in DOMAIN instance_meta :
              \A c \in DOMAIN instance_meta[v].batched_instances :
                  IF <<v, c>> \in error_log
                  THEN c \notin QueuedItemKeys(v)
                  ELSE c \in QueuedItemKeys(v)

\* one batch of view 1 failed; another batch of view 1 and a batch of
\* view 2 are queued
C15_Witness ==
    /\ "Queue" \in ran
    /\ Cardinality(error_log) = 1
    /\ \E c \in DOMAIN instance_meta[1].batched_instances :
          /\ <<1, c>> \in error_log
          /\ QueuedItemKeys(1) \ {c} # {}
          /\ c \in QueuedItemKeys(2)

\* C18 (as the code schedules it): no system of the frame starts before the
\* systems it depends on have finished: mesh batches and material batches
\* after the registry update, in either order; instance collection and
\* packing after both; indirect-draw building after that; queueing last.
C18_StagesInOrder ==
    /\ stage \in {"PrepareMeshBatches", "PrepareMaterialBatches"} =>
          "ExtractInstancedMeshes" \in ran
    /\ stage = "PrepareInstanceBatches" =>
          {"ExtractInstancedMeshes", "PrepareMeshBatches",
           "PrepareMaterialBatches"} \subseteq ran
    /\ stage = "PrepareBatchedInstances" =>
          {"ExtractInstancedMeshes", "PrepareMeshBatches", "PrepareMaterialBatches",
           "PrepareInstanceBatches"} \subseteq ran
    /\ stage = "Queue" =>
          {"ExtractInstancedMeshes", "PrepareMeshBatches", "PrepareMaterialBatches",
           "PrepareInstanceBatches", "PrepareBatchedInstances"} \subseteq ran

\* C18 as the specification states it: in addition the material batches do
\* not start before the mesh batches have finished.
C18_StrictOrder ==
    /\ C18_StagesInOrder
    /\ stage = "PrepareMaterialBatches" => "PrepareMeshBatches" \in ran

\* the material batches have finished and the mesh batches start
C18_Witness ==
    /\ stage = "PrepareMeshBatches"
    /\ "PrepareMaterialBatches" \in ran
    /\ DOMAIN material_batches # {}

\* the batch key of a material
MaterialKeyOf(h) ==
    <<AlphaRank(material_assets[h].alpha_mode.mode), material_assets[h].batch_key>>

\* the prepared materials that an instance or instance slice references
ReferencedPrepared ==
    ({instances[e].material : e \in DOMAIN instances}
     \cup {instance_slices[e].material : e \in DOMAIN instance_slices})
    \cap DOMAIN render_materials

\* C19: after the material-batch stage the material batch map has exactly
\* the keys of the prepared materials that an instance or instance slice
\* references, and the material under a key is such a material with that key.
C19_KeysOfPreparedMaterials ==
    "PrepareMaterialBatches" \in ran =>
        /\ DOMAIN material_batches = {MaterialKeyOf(h) : h \in ReferencedPrepared}
        /\ \A k \in DOMAIN material_batches :
              /\ material_batches[k].material \in ReferencedPrepared
              /\ MaterialKeyOf(material_batches[k].material) = k

\* an instance references a material that is not prepared and whose key no
\* prepared material has; only the slice references a material of its key
C19_Witness ==
    /\ "PrepareMaterialBatches" \in ran
    /\ instances[1].material \notin DOMAIN render_materials
    /\ MaterialKeyOf(instances[1].material) \notin DOMAIN material_batches
    /\ MaterialKeyOf(instance_slices[3].material) \in DOMAIN material_batches
    /\ \A e \in DOMAIN instances :
          instances[e].material \in DOMAIN render_materials =>
             MaterialKeyOf(instances[e].material)
             # MaterialKeyOf(instance_slices[3].material)

\* the alpha mode of the material recorded for batch key c
ModeOfKey(c) ==
    material_assets[material_batches[MaterialPart(c)].material].alpha_mode.mode

\* the phase the specification names for an alpha mode
StatedPhase(mode) ==
    CASE mode = "Opaque" -> "opaque"
      [] mode = "Mask" -> "alpha_mask"
      [] mode = "Blend" -> "transparent"

\* C20: when the queue stage has run, every draw item of a view is in the
\* phase of the alpha mode of its batch key, and no batch key of the view
\* has more than one item over the three phases.
C20_PhaseByAlphaMode ==
    "Queue" \in ran =>
        \A v \in Views :
            /\ \A ph \in {"opaque", "alpha_mask", "transparent"} :
                  \A i \in 1..Len(render_phases[v][ph]) :
                      /\ render_phases[v][ph][i].key
                            \in DOMAIN instance_meta[v].batched_instances
                      /\ StatedPhase(ModeOfKey(render_phases[v][ph][i].key)) = ph
            /\ QueuedItemCount(v) = Cardinality(QueuedItemKeys(v))

\* a view with one item in each of the three phases
C20_Witness ==
    /\ "Queue" \in ran
    /\ \E v \in Views :
          /\ Len(render_phases[v].opaque) = 1
          /\ Len(render_phases[v].alpha_mask) = 1
          /\ Len(render_phases[v].transparent) = 1

\* the index formats of the meshes of one mesh batch, as the registry holds
\* them in index_buffer_data
BatchIndexFormats(vk) ==
    {render_meshes[h].index_buffer_data.index_format :
        h \in RangeOf(MeshBatchAt(vk).meshes)}

\* the two fail-fast messages of the index and indirect folds
MismatchPanics == {"Mismatched index format", "Mismatched GpuIndexBufferData"}

\* C21: concatenating the index buffers of the meshes of one mesh key never
\* reaches the panics 'Mismatched index format' and 'Mismatched
\* GpuIndexBufferData': the meshes of one mesh batch are all non-indexed or
\* all indexed with one index width, and the key carries that width.
C21_NoMismatchPanic ==
    /\ panicked[2] \notin MismatchPanics
    /\ \A vk \in MeshBatched :
          /\ Cardinality(BatchIndexFormats(vk)) = 1
          /\ BatchIndexFormats(vk) = {MeshBatchAt(vk).key.index_format}
          /\ \A i \in 1..Len(MeshBatchAt(vk).indirect_data) :
                MeshBatchAt(vk).indirect_data[i].panic = ""

\* a view with a batch of two Uint16 meshes next to a batch of another
\* index format of the same topology
C21_Witness ==
    \E vk \in MeshBatched : \E wk \in MeshBatched :
        /\ vk[1] = wk[1]
        /\ vk[2][1] = wk[2][1]
        /\ Len(MeshBatchAt(vk).meshes) = 2
        /\ BatchIndexFormats(vk) = {"Uint16"}
        /\ BatchIndexFormats(wk) \in {{"None"}, {"Uint32"}}

\* the batches whose instance buffer is one storage buffer
StorageBatched ==
    {vc \in Batched : view_instance_data[vc[1]][vc[2]].kind = "Storage"}

\* C22: with storage-buffer backing the finalized draw records of a batch
\* stay in one group, unsplit and with their batch-wide base_instance (the
\* instances on the meshes before the record's mesh), whatever the batch's
\* instance count, and the batch yields exactly one drawable batch.
C22_StorageUnsplit ==
    \A vc \in StorageBatched :
        /\ BatchOf(vc).split_data = <<BatchOf(vc).indirect_data>>
        /\ Len(BatchOf(vc).batches) = 1
        /\ BatchOf(vc).batches[1].indirect_buffer = BatchOf(vc).indirect_data
        /\ BatchOf(vc).batches[1].buffer_len = SumSeq(BatchOf(vc).mesh_instance_counts)
        /\ \A k \in 1..Len(BatchOf(vc).indirect_data) :
              LET r == BatchOf(vc).indirect_data[k]
                  i == PositionOf(
                          instance_meta[vc[1]].mesh_batches[MeshPart(vc[2])].meshes,
                          r.mesh)
              IN /\ r.instance_count = BatchOf(vc).mesh_instance_counts[i]
                 /\ r.base_instance =
                       SumPrefix(BatchOf(vc).mesh_instance_counts, i - 1)

\* a storage-backed indexed batch of two live meshes with more instances
\* than a uniform buffer of the configured length would hold
C22_Witness ==
    \E vc \in StorageBatched :
        /\ BatchOf(vc).is_indexed
        /\ Len(BatchOf(vc).indirect_data) >= 2
        /\ BatchOf(vc).indirect_data[1].instance_count > uniform_buffer_length
        /\ BatchOf(vc).indirect_data[2].base_instance > uniform_buffer_length

\* the batches split for a uniform-backed instance buffer, indexed or not
UniformSplit ==
    {vc \in Batched : view_instance_data[vc[1]][vc[2]].kind = "Uniform"}

\* C23: the capacity split emits no draw record with instance_count = 0 into
\* any split group, for any per-mesh counts, also when the running instance
\* count equals the capacity exactly at the end of a mesh's record.
C23_NoZeroCountRecord ==
    \A vc \in UniformSplit :
        \A g \in 1..Len(BatchOf(vc).split_data) :
            \A k \in 1..Len(BatchOf(vc).split_data[g]) :
                BatchOf(vc).split_data[g][k].instance_count # 0

\* the number of elements mesh h adds to the concatenated mesh data of a
\* batch: its indices in an indexed batch, its vertices otherwise
ElementsOf(h, is_indexed) ==
    IF is_indexed THEN Len(mesh_assets[h].indices) ELSE mesh_assets[h].vertex_count

\* every finalized record of a batch: the records before the split and the
\* records of the split groups
FinalizedRecords(vc) ==
    RangeOf(BatchOf(vc).indirect_data) \cup RangeOf(Flatten(BatchOf(vc).split_data))

GroupPairs(split_data) ==
    [g \in 1..Len(split_data) |-> CountAndBase(split_data[g])]

\* the split groups the other branch of the builder makes of the records of
\* a batch
OtherBranchSplit(vc) ==
    IF BatchOf(vc).is_indexed
    THEN SplitNonIndexed(BatchOf(vc).indirect_data, "Uniform",
                         uniform_buffer_length).split_data
    ELSE SplitIndexed(BatchOf(vc).indirect_data, "Uniform",
                      uniform_buffer_length).split_data

\* C25: for one list of per-mesh draw records and one capacity the capacity
\* split of a non-indexed batch gives, buffer by buffer, the same
\* (instance_count, base_instance) pairs as the split of an indexed batch.
C25_SplitsAgree ==
    \A vc \in UniformSplit :
        GroupPairs(BatchOf(vc).split_data) = GroupPairs(OtherBranchSplit(vc))

\* the places (from 1) of the packed buffer of a batch that hold the plain
\* instances of mesh h and the ranges of the slices that reference mesh h
PlacesOfMesh(vc, h) ==
    LET ranges == instance_meta[vc[1]].instance_batches[vc[2]].instance_slice_ranges
    IN {p \in 1..Len(PackedData(vc)) :
           /\ PackedData(vc)[p].entity \in DOMAIN instances
           /\ instances[PackedData(vc)[p].entity].mesh = h}
       \cup UNION {(ranges[e].offset + 1)..(ranges[e].offset + ranges[e].instance_count) :
                      e \in {x \in DOMAIN ranges : instance_slices[x].mesh = h}}

\* C26: for every batch and every mesh M of it, the places of the packed
\* instance buffer that M's draw record covers, base_instance up to
\* base_instance + instance_count, are the places that hold M's plain
\* instances and the ranges of the slices that reference M.
C26_RecordCoversMesh ==
    \A vc \in Batched :
        \A k \in 1..Len(BatchOf(vc).indirect_data) :
            LET r == BatchOf(vc).indirect_data[k]
            IN (r.base_instance + 1)..(r.base_instance + r.instance_count)
               = PlacesOfMesh(vc, r.mesh)

\* slice e of view v has been given a range that lies in the packed buffer
\* of its batch key and has room for the slice's instances
SliceHasSpace(v, e) ==
    /\ v \in DOMAIN view_instance_data
    /\ OwnSliceKey(e) \in DOMAIN view_instance_data[v]
    /\ \E t \in InstanceSliceTargets :
          /\ t.view = v
          /\ t.entity = e
          /\ t.range.instance_count = instance_slices[e].instance_count
          /\ t.range.offset + t.range.instance_count
             <= Len(view_instance_data[v][OwnSliceKey(e)].data)

\* C27: in every frame a visible instance slice whose mesh and material are
\* ready receives an InstanceSliceRange and space in the packed instance
\* buffer, also in a view that has no plain instance in that frame.
C27_SliceAlwaysPacked ==
    "PrepareInstanceBatches" \in ran =>
        \A v \in Views : \A e \in ReadySlices(v) : SliceHasSpace(v, e)

\* the packed batches of this frame that hold instance slices
PackedWithSlices ==
    {vc \in Packed :
        DOMAIN instance_meta[vc[1]].instance_batches[vc[2]].instance_slice_ranges # {}}

\* the slices of a batch in slice order: the order of the view's slice list
SlicesOf(vc) ==
    FilterSeq(instance_meta[vc[1]].instance_slices,
              DOMAIN instance_meta[vc[1]].instance_batches[vc[2]].instance_slice_ranges)

\* the places (from 1) a range addresses
PlacesOfRange(range) == (range.offset + 1)..(range.offset + range.instance_count)

\* C28: within one batch the InstanceSliceRanges of the batch's slices are
\* pairwise disjoint and lie back to back in slice order, the first one
\* starting at the number of plain instances of the batch, each with the
\* instance_count of its slice; the packed buffer is as long as the number
\* of plain instances plus the sum of the slices' instance counts.
C28_SliceRangesBackToBack ==
    \A vc \in PackedWithSlices :
        LET batch == instance_meta[vc[1]].instance_batches[vc[2]]
            ranges == batch.instance_slice_ranges
            slices == SlicesOf(vc)
            plain == Cardinality(batch.instances)
            counts == [k \in 1..Len(slices) |-> instance_slices[slices[k]].instance_count]
        IN /\ RangeOf(slices) = DOMAIN ranges
           /\ \A k \in 1..Len(slices) :
                 /\ ranges[slices[k]].instance_count = counts[k]
                 /\ ranges[slices[k]].offset = plain + SumPrefix(counts, k - 1)
           /\ \A a \in DOMAIN ranges : \A b \in DOMAIN ranges \ {a} :
                 PlacesOfRange(ranges[a]) \cap PlacesOfRange(ranges[b]) = {}
           /\ Len(PackedData(vc)) = plain + SumSeq(counts)

\* a batch with a plain instance and two slices, the slice of 1 instance
\* before the slice of 2 instances in the view's list: ranges at 1 and 2
C28_Witness ==
    \E vc \in PackedWithSlices :
        LET batch == instance_meta[vc[1]].instance_batches[vc[2]]
        IN /\ batch.instances = {1}
           /\ SlicesOf(vc) = <<3, 2>>
           /\ batch.instance_slice_ranges[3].offset = 1
           /\ batch.instance_slice_ranges[2].offset = 2
           /\ Len(PackedData(vc)) = 4

\* the mesh batches of this frame whose indices are 16 bits wide
Uint16Batched ==
    {vk \in MeshBatched : MeshBatchAt(vk).index_data.index_format = "Uint16"}

\* the sum of the vertex counts of the meshes before place m of a batch
VerticesBefore(vk, m) ==
    SumSeq([j \in 1..(m - 1) |-> mesh_assets[MeshBatchAt(vk).meshes[j]].vertex_count])

\* C29: for 16-bit index meshes every rebased index written to the
\* concatenated index buffer is the original index plus the sum of the
\* vertex counts of the meshes before it, without truncation or wrap-around
\* modulo 2^16, whatever the meshes of the batch are.
C29_NoWrapU16 ==
    /\ panicked[2] # "attempt to add with overflow"
    /\ \A vk \in Uint16Batched :
          LET meshes == MeshBatchAt(vk).meshes
              starts == [m \in 1..Len(meshes) |->
                            SumSeq([j \in 1..(m - 1) |->
                                       Len(mesh_assets[meshes[j]].indices)])]
          IN \A m \in 1..Len(meshes) :
                \A i \in 1..Len(mesh_assets[meshes[m]].indices) :
                    MeshBatchAt(vk).index_data.indices[starts[m] + i]
                    = mesh_assets[meshes[m]].indices[i] + VerticesBefore(vk, m)

\* C30: for every queued instance compute job the number of dispatched
\* workgroups times the workgroup size 64 is at least the job's instance
\* count, so that every instance of the slice is covered by a work item.
C30_WorkgroupsCover ==
    \A k \in 1..Len(dispatched) :
        dispatched[k].workgroups * WORKGROUP_SIZE >= dispatched[k].instance_count

=============================================================================
